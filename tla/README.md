# Formal model of the payment service

The service (`src/app`) accepts payment operations over HTTP, delivers each
submitted one to an external payment provider, and settles it when the provider
posts a receipt. It is one FastAPI process with three background workers and one
PostgreSQL database. This directory holds its TLA+ models, the TLC configurations
that check them and the TLAPS proofs of what they keep to.

## 1. Inventory

### Parts, state and operations

| Part | State | Operations | Talks to |
| --- | --- | --- | --- |
| Operation API (`app/api/operations.py`) | none | POST create, POST submit, GET operation, GET events | OperationService, a session per request |
| OperationService, EventService | rows `operations`, `events` | `create`, `submit`, `get_by_id`, `get_events`, `create_event` | the database |
| Receipt API, ReceiptService | `operations.status`, `provider_payment_id`, `send_jobs.state`, `events` | `process_receipt` | the provider posts to it |
| SendJobService | row `send_jobs` (state, attempt, next_retry_at, last_error) | `claim_send_job`, `complete_job`, `move_to_retry`, `record_retry_failure`, find query | called by the workers and by ReceiptService (lock) |
| RetryPolicy | none | `next_retry_at` (exponential backoff, cap, full jitter) | called by SendJobService |
| PendingWorker | its batch of found ids | poll, claim PENDING -> RUNNING | the database |
| RunningWorker | its batch, the call it awaits | poll RUNNING, call the provider, complete or move to retry | the database, ProviderClient |
| RetryWorker | its batch, the call it awaits | poll WAITING_RETRY that are due, call, complete or reschedule | the database, ProviderClient |
| ProviderClient | none | POST /payments with Idempotency-Key = operation id | the provider |
| Lifespan (`app/main.py`) | the three tasks, the HTTP client | start, stop | the workers |
| Request validation (`app/schemas`) | none | amount, currency, lengths | the API |
| Migrations | the database schema | precision of the amount, keys, UNIQUE, lengths | |
| Health, settings, logging | none of the domain's | | |

The parts meet in the database only. Every transaction that changes an operation,
its job or its events starts with `SELECT ... FOR UPDATE` on the operation's row;
`create`, which has no row to lock, relies on the primary key. The workers share one
event loop and are at any `await` in any order with each other and with the
handlers. A worker holds no transaction while it awaits the provider.

### What is hard

- *Answer and receipt race.* The receipt may overtake the HTTP answer, follow it, come
  before the submission, repeat, or contradict an earlier one.
- *Lost answers.* A timeout or a crash after the provider accepted a payment leaves the
  service to send it again under the same key.
- *Stale reads.* A worker acts on a batch found minutes ago and on a row read before its
  session closed, a connection was had and a call of up to half a minute ended.
- *Two workers, one job.* RunningWorker and RetryWorker have no claim on a job, only its
  state.
- *Failing statements.* Columns have lengths and UNIQUE constraints nobody validates
  before; what happens to a job whose transaction always fails?
- *Concurrent creates and submits* of one id.
- *Answers around a commit.* A handler commits, which releases the row, and reads it again
  to answer; the events of an operation are read by another statement than its status.
- *Head of the line.* A batch is worked off one call at a time; a slow or poisoned job is
  in front of the others.
- *Shutdown.* `stop()` is looked at between two polls only, and `gather` raises at once when
  one task has ended with an exception: the HTTP client then closes beside live workers.
- *Boundaries of numbers.* Amounts go through JSON, NUMERIC(12,2) and a format string;
  backoff grows until it cannot be computed.

### What makes each part correct

- OperationService: one SendJob and one SUBMIT_REQUESTED however many submits race;
  nothing leaves before the submission is committed and the job claimed; the history
  explains the status.
- SendJobService: a job's state follows the operation's; a DONE delivery has an id and
  stays DONE; a waiting job has its next attempt planned.
- ReceiptService: the final status comes from a receipt and stays; an id is never
  replaced; contradictions are recorded as ignored.
- Workers: at most one call per operation at a time; no retry taken up ahead of
  `next_retry_at`; a request for an operation that is settled meanwhile asks for nothing new;
  every submitted operation is delivered in the end.
- Schedule: a due job is taken up within the time the jobs ahead of it take, whatever their
  calls end in; each database error costs it a call or a pause, and no more.
- Lifespan: an orderly stop cuts nothing short; a disorderly one is no worse than a crash;
  every stop ends.
- Operation API: the amount a client was promised is the amount everyone sees and the
  provider is asked for; a created operation never disappears; its history explains every
  status that was told.
- The whole: at most one payment per operation, whose id and result are the ones kept.

`PROJECT.json` lists the hazards line by line, with the properties that cover each.

## 2. Modules

| Module | Models | |
| --- | --- | --- |
| `PaymentRows` | the ORM rows and the bodies of all transactions, as functions from the row read to the row committed; the four row predicates | no variables |
| `PaymentService` | handlers, workers, database, provider, time and faults | the core |
| `PaymentLifecycle` | what the service promises about a payment: register, request, one charge, its id, its result | abstract |
| `SendJobLifecycle` | the way of a job: submitted, claimed, taken up by one worker at a time, each recorded failure counted, DONE for good | abstract |
| `OperationTransactions` | the statements of concurrent transactions on one operation at READ COMMITTED | justifies the steps of `PaymentService` |
| `OperationApi` | what clients are answered around these transactions, and the way of an amount | superposed on `OperationTransactions` |
| `ServiceLifespan` | start, stop, close and end of the process | superposed on `PaymentService`, and a refinement of it |
| `DeliverySchedule` | the same workers with a clock: pauses, calls, delays, order of a batch | how long a delivery waits |
| `MCPaymentService`, `MCOperationTransactions`, `MCOperationApi`, `MCDeliverySchedule`, `MCServiceLifespan` | what TLC runs, with the symmetry it may use | |
| `*Proofs` | the theorems, see section 5 | |

`PaymentService` and `OperationTransactions` both extend `PaymentRows`, so both run the
same transaction bodies. `PaymentService` instantiates `PaymentLifecycle` and
`SendJobLifecycle` under refinement mappings. `ServiceLifespan` and `OperationApi` extend the
module they are superposed on: each of their actions is an action of it, with a guard or a
change of their own variables around it. `DeliverySchedule` has its own variables, for a clock
would multiply the states of `PaymentService`; what binds the two is `SendJobLifecycle`, which
both implement.

### State of `PaymentService` and the code

| Variable | Code |
| --- | --- |
| `db[o]` | the committed `operations`, `send_jobs` and `events` rows of `o`; status `ABSENT`: no operation; job state `NONE`: no job; an event's `sequence_no` is its position |
| `batch[w]` | `operation_ids` of `_process_*_jobs`, less the ones already processed |
| `call[w]` | the operation whose job the worker has read and calls the provider for: from the read over `create_payment` to the end of the transaction for its outcome |
| `dead` | tasks that ended with an exception |
| `sent` | requests that left; the identity of one is its Idempotency-Key |
| `payments`, `posted` | what the provider created, and the receipts it posted (external) |
| `crashes`, `dbErrors` | how many faults have happened, for the bounds |

| Action | Code |
| --- | --- |
| `CreateOperation`, `SubmitOperation` | the POST handlers with the service calls they make; calls that only answer (409, 404, 200) change nothing and are no steps |
| `ReceiveReceipt` | POST /receipts: lock, validate the id, late or first receipt, event, commit; every refusal is a rollback, hence no step |
| `FindJobs`, `FindFails` | one poll of a worker; a failing poll ends RunningWorker and RetryWorker but not PendingWorker |
| `ClaimJob` | `_claim_job` |
| `ProcessJob` | `_process_job` up to the close of its first session: the row is read again, and skipped in another state |
| `PostPayment` | `create_payment` has a connection and the request leaves, whatever has become of the job since the read |
| `CallAccepted` | 202 with an id, then `complete_job` in a new transaction, which raises on a foreign or duplicate id and then leaves the row |
| `CallFails` | any other end of the call, before or after the request left, then `move_to_retry` (RunningWorker) or `record_retry_failure` (RetryWorker); a text that does not fit, or an attempt past MaxAttempt, rolls back |
| `JobFails` | the database fails a statement of one job: PendingWorker abandons its batch until its next poll, the others go on |
| `AcceptPayment`, `PostReceipt` | the provider (external) |
| `TimePasses`, `Crash` | `next_retry_at` is reached; the process dies and starts again |

Losing, repeating and reordering need no action: `sent` and `posted` only grow, and an
element may be acted on late, again or never. A lost answer is `CallFails` after
`AcceptPayment`, or a crash.

### `ServiceLifespan`, `DeliverySchedule` and `OperationApi`

| Module | Variables and actions | Code |
| --- | --- | --- |
| `ServiceLifespan` | `stage` | where `lifespan` in `app/main.py` is: at its `yield`, in `gather`, past `aclose` |
| | `polling` | workers that passed `while not self._stop_event.is_set()` before `stop()` was called, and are in their find query |
| | `interrupted` | workers that awaited an answer when the client closed |
| | `Poll`, `CallProvider`, `AnswerCall`, `FailCall`, `FailJob` | the steps of the workers, as far as the stage lets them: a closed client sends no request (`client.post` raises), so `CallProvider` stops and `FailCall` is left |
| | `Stop`, `Close`, `EndProcess` | the three `stop()`; `gather` returns or raises, then the client closes; the tasks left over are cancelled, or the process is killed; it starts again |
| `DeliverySchedule` | `state`, `attempt`, `timer` | the job; `timer` is minus its age until its first call, then the time to `next_retry_at` |
| | `batch`, `call`, `elapsed`, `idle` | what a worker has found, the call it awaits and for how long, what is left of its pause |
| | `dead` | callers whose task ended with an exception |
| | `lost` | time a job lost before its first call to claim polls that broke off |
| | `unrecorded` | jobs for which a transaction of a caller, before or after the call, has raised |
| | `ClaimJobs` | one poll of PendingWorker: it claims what is PENDING, oldest first, all of it or as far as it gets before an exception; the rest waits for the next poll |
| | `FindJobs`, `FindFails` | a poll of a caller; one that raises ends its task |
| | `ProcessJob`, `ReadFails` | the next job of a batch, in the order of its query: taken up, skipped, or left by an exception |
| | `CallAccepted`, `CallFails`, `CallNotRecorded` | the ends of a call; `Delays` is the window of `RetryPolicy.next_retry_at` |
| | `Tick` | one unit of time, when every worker is in a call or a pause |
| `OperationApi` | `handler`, `asked`, `answer` | a request: where its handler is, the amount it brings, the response |
| | `amount`, `bodies` | the `amount` column; the amounts in the bodies to the provider |
| | `told`, `since` | history: statuses clients were told, and were told before a request began |
| | `RefuseRequest`, `BeginCreate`, `BeginOther` | the validation, and the start of a handler with a transaction |
| | `Insert`, `RunStatement`, `CommitRow` | its statements; an amount of more than 12 digits fails the INSERT |
| | `AnswerError`, `AnswerExisting`, `RefreshAndAnswer` | 409, 404, 500; 200 for a submit that existed; 201 or 202 after `session.refresh`, or 500 when that fails |
| | `GetById`, `GetForEvents`, `GetEvents` | the GET handlers, the second in two statements |
| | `SendRequest` | `create_payment`, whose body has the amount as `f"{amount:.2f}"` |

### Abstractions

- *A transaction is one step* of `PaymentService`. `OperationTransactions` takes its
  statements apart and shows that the committed row changes by one whole body at a time.
- *A worker takes the ids of its batch in any order* in `PaymentService`, where the code goes
  by created_at or next_retry_at: every order of the code is one of these.
  `DeliverySchedule` has the order, for its bounds depend on it.
- *A worker's turn is three steps*: the read of the row, the request that leaves, the
  transaction for the outcome; anything may happen in between, so a request may leave for a job that
  a receipt has ended meanwhile. The answer arrives in the step that runs its transaction: until
  then the worker is still awaiting, and what it does with the answer depends only on the row
  then. `DeliverySchedule` has the first and the last step only; it says when a job is taken up, not
  when its request leaves.
- *Texts* are `fits` or `too_long` for their column. *Time* of a retry is `null`, `later`
  or `due`; so jitter (which may be 0) and clock are any delay; `DeliverySchedule` has the numbers.
  Amounts are in `OperationApi` only. Currency and the timestamps of rows are left out: they
  are written once and compared with nothing.
- *`MaxAttempt`* stands for 1024, the last attempt for which
  `base_delay * 2 ** (attempt - 1)` is a float; the runs scale it to 1 or 2, the proofs
  hold for any positive value.
- *A crash* includes the restart: nothing of the service happens in between. The compose
  file has no restart policy for it, so who starts it again, and when, is not the code's.
- *GET handlers* change nothing; they are steps of `OperationApi` only.
- *Lifespan.* That requests are handled only while `serving` is uvicorn's doing, which
  finishes the open ones before it resumes the lifespan (external). A worker between two jobs
  is, when `stop()` is called, in its find query or in the pause the call ends: `Stop`
  chooses.
- *Time* of `DeliverySchedule` passes in calls and pauses; queries and transactions take
  none, and one poll of PendingWorker claims all that it gets to in one step. A poll that fails
  may repeat: `MaxLost` bounds the time a job loses to such polls, and the promise counts it.
  httpx bounds each network operation of a call and not the call, so `MaxCall` is an assumption
  about the provider: that it does not send its answer in drops. `Tick` stops ageing a job of which
  nothing is promised (`Unpromised`: unrecorded, or its caller dead) at `Horizon`, for only its place
  in the order matters.
- *Decimals* are a coefficient and an exponent, the column holds hundredths. TLC's integers
  have 32 bits, hence the run scales the column's 12 digits to 3.

## 3. Runs

All runs of `PaymentService` have one worker of each kind, as `lifespan` starts them.

| Run | Instance | Question and result |
| --- | --- | --- |
| `service_safety` | 2 operations, 2 ids, consistent provider, MaxAttempt 2, 1 crash, 1 failed statement, 4 events | the 11 invariants, the 3 action properties and the 2 refinements hold |
| `any_provider` | 1 operation, 2 ids, inconsistent provider, long texts, 1 crash | what does not need the provider holds without it |
| `shared_id` | 2 operations, 1 id, inconsistent provider, MaxAttempt 1, 3 events | rows, ids and what no step may undo, when the UNIQUE column refuses an id in mid-delivery |
| `liveness` | 2 operations, 2 ids, consistent provider, MaxAttempt 2, 1 crash, 3 events, fairness | every submitted operation is delivered and settled |
| `transactions` | 3 requests or worker transactions of any kind, 2 ids, every stage of a delivery as initial row; amounts with 0 to 3 places around a column of 3 digits | transactions are atomic, one submit and one create win, no sequence_no collides; amounts, statuses and histories the clients are told fit together |
| `schedule` | 3 operations, delays 1 and 2, 2 attempts, pause 1, calls up to 1, MaxLost 1 (one claim poll that breaks off), horizon 2 | how late a job may be taken up for its first call and for a retry, also when claims, reads and transactions fail or a task ends; the clock takes no job off its way |
| `shutdown` | 2 operations, 1 id, consistent provider, 2 ends of the process, 1 failed statement, 3 events, fairness | a stop cuts nothing short while all tasks are alive, and every stop ends |
| `finding_*` | the smallest instance that shows it | a statement of the documentation the code does not keep, see section 4 |

Why the bounds are enough. Two operations and two ids are what the UNIQUE column, the
batches and the head of the line need; no transaction touches a third row. Two attempts
are a first failure and a repeated one; the third, which cannot be scheduled, is the
overflow. One crash is enough for a request sent before and after it. Four events are
creation, submission, receipt and one ignored receipt; further ignored receipts repeat
that step (MaxEvents leaves a late receipt waiting); liveness needs the first three. Three transactions are a holder, a
waiter and one that overtakes; a reader among them sees what the other two leave. The amounts 15
with exponents -3 to 0 are refused (0.015), fit (0.15, 1.5) or overflow (15.00, four
digits); 0 is refused. Three jobs with a pause and a call of one unit make every term of the
bounds of `schedule` matter: with `Backlog` one less, TLC finds a late job; one claim poll that
breaks off puts a job behind by the `PollInterval` that `lost` records. Two ends of
the process allow a stop, a close and a start after it, and then a crash. Deadlock is checked in
every run: `PaymentService`, `ServiceLifespan` and `DeliverySchedule` always
have a poll or a tick to do, and the transactions have a step `Finished` or
`AllAnswered` for the regular end only.

### Properties

- `JobFollowsStatus`, `DeliveredHasPaymentId`, `RetryMetadata`, `HistoryMatchesStatus`: the
  four row predicates, for every committed row.
- `HistoryFollowsTable`: the events are those of the table in `enums.py`; true only while
  receipts come after submissions.
- `FinalOnlyByReceipt`, `IntentBeforeSend`, `OnePaymentPerOperation`, `StoredIdIsProviders`:
  what the database says about the world outside, and the reverse.
- `OneCallPerOperation`, `RetryOnlyWhenDue`: the workers' division of labour, in spite of
  stale batches.
- `LateRequestsRepeat`: a request that leaves after a receipt has settled the operation has left
  before; the first one leaves while the operation is PROCESSING.
- `NothingIsUndone`: what no step may take back.
- `ImplementsLifecycle`: refinement of `PaymentLifecycle`, with a payment's id as the charge.
- `ImplementsJobs`: refinement of `SendJobLifecycle`, of `PaymentService` and of `DeliverySchedule`.
  Stale batches, lost answers, rollbacks, crashes and receipts in mid-call may end a call
  without a trace (`Abandon`), but never lead to a job being taken up that is unclaimed, taken or
  DONE, nor count an attempt that was not made. Of when the request leaves it says nothing.
- `SubmittedIsDelivered`, `SubmittedIsSettled`: liveness.
- `CommitsAreBodies`, `SubmitCreatesOnce`, `LockedNeverFails`: the row lock.
- `AmountIsKept`: the amount of a 201 is what the client wrote, what every later answer says
  and what the provider is asked for.
- `CreatedOnceForAll`, `HistoryExplainsAnswers`: answers against earlier answers. Who was
  told a status finds the operation, and its event, from then on.
- `FirstCallInTime`, `RetryInTime`: a job that is ready waits for one call of each other
  job, and one more of each for which a transaction has failed (a read or a call that was not
  recorded), and before its first call for one more pause per claim poll that broke off before its
  turn; neither a poisoned job nor one that is rescheduled again and again can starve it. Both
  hold while the worker in question lives, and of jobs whose own transactions do not fail: one
  that is `unrecorded` is found again by every poll, and nothing in the code says when that ends.
  Nor does anything bound the claim polls that break off: a claim that always raises keeps
  every younger job PENDING, and the promise then only says that each is late by as much.
- `StopIsOrderly`, `StopEnds`: the shutdown. With a dead task the close may cut calls short
  and keeps other requests from leaving; that it is no worse than a crash and lost calls is proved:
  the process implements `PaymentService`.

### Fairness

`FairSpec` assumes, and the code justifies:

- each worker's poll, claim and `_process_job` (WF): the loops sleep a second and go on;
  the event loop runs every ready task;
- each call ends (WF): the HTTP client has connect, write, read and pool timeouts;
- a call that RetryWorker makes again and again has a connection once, and its request arrives
  once and is answered once (SF, per operation): requests and answers may be lost, but not for ever; nothing is assumed of a
  request that is sent once, so the property rests on the retries;
- retry times are reached; the provider posts a receipt for a payment it made and repeats
  it until it is taken (WF): clock and provider.

`FairProcessSpec` assumes of a shutdown only (WF, per worker) that a find query under way
ends, that the claims and calls of a batch go on, and that a call ends, and that `gather`,
once it may return or raise, resumes the lifespan. Whether receipts, answers or retries
come is left open: `StopEnds` does not need them.

Nothing is assumed of clients, crashes or failures. The `liveness` run excludes database
errors, for one of them may end a worker (section 4), and texts that are too long. It is
checked without symmetry.

## 4. Where the code and its documentation disagree

1. `finding_long_error`: a provider error with a body over 500 characters cannot be stored
   in `last_error`; the job stays RUNNING and is sent again every second, without backoff.
2. `finding_backoff_overflow`: from attempt 1025 on `next_retry_at` raises OverflowError
   (the power is converted to a float before it is capped): the next retry is never planned.
3. `finding_early_receipt`: a receipt before the submission is recorded as RECEIPT_IGNORED
   from CREATED to CREATED, which the table of events excludes.
4. `finding_dead_worker`: an exception of one poll ends RunningWorker or RetryWorker until
   the process is restarted; PendingWorker survives the same.
5. `finding_concurrent_create`: of two concurrent creates the loser fails in the autoflush
   before the commit and answers 500 instead of 409.

## 5. Proofs

TLAPS proves the following for every set of operations, ids, transactions and workers and
every value of the bounds, each theorem from the module's specification (`Spec`, `TxSpec`,
`ApiSpec`, `ProcessSpec`) and the named assumptions on constants of the modules. `DeliverySchedule`
takes a finite set of operations, for it counts them.

| Module | Theorems | Further assumption |
| --- | --- | --- |
| `PaymentRowsProofs` | lemmas: every transaction body keeps a row `RowOK` | |
| | `ReceiptIsIdempotent`, `AnswerAndReceiptCommute`: receipts repeated, and before or after the answer | |
| `PaymentServiceProofs` | `TypeOK` and the four row predicates | |
| `PaymentSafetyProofs` | `NothingIsUndone`, `FinalOnlyByReceipt`, `IntentBeforeSend` | |
| | `SettledRowsOnlyLog`: a settled row gets ignored events and nothing else | |
| | `OnePaymentPerOperation`, `StoredIdIsProviders`, `HistoryFollowsTable`, `LateRequestsRepeat` | `ConsistentProvider` |
| | `OneCallPerOperation`; `FailedAttemptIsPlanned`: a failed call plans a retry, or one of findings 1 and 2 applies | one RunningWorker, one RetryWorker |
| | `RetryOnlyWhenDue` | one RetryWorker |
| `PaymentLifecycleProofs` | `Spec` implements `PaymentLifecycle` | `ConsistentProvider` |
| | `Spec` implements `SendJobLifecycle` | one RunningWorker, one RetryWorker |
| `OperationTransactionsProofs` | types, `SubmitCreatesOnce`, `LockedNeverFails`, `CommitsAreBodies`; `HolderRunsAlways`: who holds the row waits for nothing | |
| `OperationApiProofs` | `ApiSpec` implies `TxSpec`; `CreatedOnceForAll`, `HistoryExplainsAnswers`, `AmountIsKept` | |
| `ServiceLifespanProofs` | types, `StopIsOrderly`; `ProcessSpec` implements `Spec` of `PaymentService` | |
| | the theorems of `PaymentServiceProofs`, `PaymentSafetyProofs` and `PaymentLifecycleProofs` on the runs' properties, of the process (`ProcessKeepsRows`, `ProcessUndoesNothing`, ...) | as there |
| | `StopWindsUp`: a bound on the steps between `stop()` and the end of the batches | finitely many operations |
| `DeliveryScheduleProofs` | types, `FirstCallInTime`, `RetryInTime`, `RetryIsNeverEarly`; `Spec` implements `SendJobLifecycle` | |

The argument:

- *Rows.* No row predicate is inductive alone: that a claimed job carries no retry
  metadata is needed for the claim, that a job exists for its status is needed for the
  receipt. Together with the row's type they are (`RowOK`). Each body has a lemma
  (`ClaimSendJobOK`, ...); the histories rest on `CreateEventExtends`. A step of the
  service changes one row by one body (`RowSteps`), so `RowOK` is an invariant of all rows
  (`RowsStayOK`).
- *Outside.* What is in a call or was sent belongs to a claimed job, and stays so
  (`RequestsClaimed`); a consistent provider then has at most one payment per key, all keys being
  operation ids; each payment belongs to a request that was sent, and receipts and answers carry
  its id. An operation that is settled has a payment, so its request had left
  (`LateRequestsRepeat`). These facts form one invariant, of which
  `OnePaymentPerOperation`, `StoredIdIsProviders` and the refinement are consequences.
- *Workers.* While a worker calls, the job is in that worker's state or was completed by a
  receipt (`CallsMatchJobs`): only the one RunningWorker moves a job out of RUNNING, and
  only the one RetryWorker out of WAITING_RETRY, but for receipts. A job is taken up only in
  the worker's own state, so never beside the other's. An id in RetryWorker's batch that is
  still WAITING_RETRY is still due (`RetryBatchIsDue`), for only RetryWorker reschedules it
  and it does one job at a time.
- *Jobs.* The same two facts give the refinement of `SendJobLifecycle`: a job is taken up that no
  other worker has, and a call that ends takes just its own operation out of those taken.
  A step that leaves all jobs alone and ends any calls is `Abandon` or a stutter (`CallsEnd`),
  which covers crashes, rollbacks and answers that come after a receipt; the lemma behind
  `FailedAttemptIsPlanned` (`CallFailsPlans`) makes every other failure a `Fail`.
- *Transactions.* Between its lock and its commit a transaction holds the row, has read the
  committed one and has the next `sequence_no` (`TxInv`); so what it commits is its body
  applied to the committed row (`CommitWritesBody`).
- *Answers.* Each step of the API is one statement of a transaction or none, so that all of
  the above holds of it. A committed row still has every event it had (`BodyExplains`), so
  each status in `told`, which was read from a committed row, is explained by the row of any later
  time (`ToldIsExplained`); a row that explains anything is there, hence who creates
  the operation or misses it began before any status was told (`AbsentBeforeTold`).
- *Amounts.* The row holds the hundredths of what the creating request asked for, and answers and
  bodies are read from it (`AmountInv`); so it is left to show that the hundredths of a
  valid amount are exact (`HundredthsAreExact`). That rests on `TenTo`, a recursive function: that it
  exists, and what it is at `n + 1`, is proved by induction over a set of numbers
  (`SetInduction`, from the least number that is not in it), as the library's induction
  theorems take an operator, which the provers here cannot instantiate.
- *Lifespan.* After `stop()` a task that has finished stays finished, since only a poll
  gives a worker work again; a stop without dead tasks closes only when all have. Each step
  of the process is a step of `PaymentService` or changes the lifespan only, so every theorem
  about the service is one about the process.
  After `stop()`, two steps for each job in a worker's batch, one for its call, and the batch that
  a poll under way may still find bound what is left of it (`Left`).
- *Schedule.* The invariant is a budget (`WithinBudget`): what a ready job has waited, what is
  left of the call and the pause in front of it (`Spent`), and one `MaxCall` for each turn
  other jobs may still take before it (`Turns`: those before it in its batch, or, before the
  poll that finds it, all that may come first, the unrecorded ones twice; a job that will be
  skipped counts in neither) never exceed the bound, which grows by a turn with each transaction that
  fails (`FailuresGrow`). A tick moves time from the call or the pause to the waiting, an end of a call
  takes a turn off, and a job that is rescheduled is due later than one that waits already. What
  PendingWorker has not claimed is bounded by its pause and the time it has `lost` (`ClaimsOnTime`).
  Of a job whose caller is dead nothing is promised. Much of the proof
  counts these sets.

- *Early retries.* What is in RetryWorker's batch is DONE or due (`FoundStaysDue`): waiting makes a
  job only more due, and the failure that gives it another time comes after its turn.

Only model-checked: the liveness properties `SubmittedIsDelivered`, `SubmittedIsSettled` and
`StopEnds`, since fairness and ENABLED are out of the prover's reach; of the last one, the part
without fairness is `StopWindsUp`. And the `finding_*` runs, which refute what they check;
`FailedAttemptIsPlanned` proves that the first two findings are the only ways a failed call can
leave no plan.

## 6. Not modelled

- Health API, settings and logging: no state, or configuration.
- Migrations: the precision of the amount, the keys and the lengths they create are in the
  models; running Alembic (`migrations/env.py`) is a deployment step before the process starts.
- Validation of currency, description and the format of ids: a request is refused before it
  reaches anything with a state; a refused one differs from none only in its 422.
- Database session: pool, ping and `check_connection`; a check that fails means that the process
  starts later.
- Parsing of the provider's answer: 202 with an id, or a failure.
- Growth of a history by repeated ignored receipts (`receipt_service.py:139`): nothing in the
  code bounds it, so there is no property to state.
- Deployment of several processes: two RunningWorkers would break `OneCallPerOperation`; the
  key still keeps `OnePaymentPerOperation`.

## 7. Plan

Done, in this order: `PaymentRows`, `PaymentService`, `PaymentLifecycle`,
`OperationTransactions` and their proofs; `DeliverySchedule` and `ServiceLifespan` with theirs;
`OperationApi`; `SendJobLifecycle`, with the proofs that `PaymentService`, the process around it and
`DeliverySchedule` implement it; the theorems about the process.

Next: delivery of one operation while another is stuck on a conflicting id, as liveness under
`FairSpec` (to be model-checked; `RetryInTime` is its bound in time).
