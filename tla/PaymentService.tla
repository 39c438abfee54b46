-------------------------- MODULE PaymentService --------------------------
(***************************************************************************)
(* One process of the payment service: the API handlers (app/api), the     *)
(* three workers (app/workers) that share one event loop and deliver every *)
(* SendJob to the payment provider, the database they meet in, and the     *)
(* provider as the service sees it.                                        *)
(*                                                                         *)
(* A transaction is one step: every transaction that writes first takes    *)
(* the operation's row lock (SELECT ... FOR UPDATE) and holds it until it  *)
(* commits.  A worker does not hold a transaction while it calls the       *)
(* provider: it reads the row and closes its session, waits for a          *)
(* connection, posts the request, awaits the answer, and runs another      *)
(* transaction.  The read, the request that leaves and that transaction    *)
(* are three steps with anything in between; the answer arrives in the     *)
(* step that runs the transaction for it.                                  *)
(*                                                                         *)
(* The network loses, delays, repeats and reorders: sent and posted only   *)
(* grow, and an element may be acted on late, again, or never.             *)
(***************************************************************************)
EXTENDS PaymentRows, FiniteSets

CONSTANTS
  PendingWorkers, RunningWorkers, RetryWorkers,  \* one of each in app/main.py
  ConsistentProvider, \* the provider honours Idempotency-Key and posts true receipts
  TextSizes,          \* sizes of the texts that arrive: error bodies, receipt messages
  MaxCrashes,         \* bound: process crashes (and restarts)
  MaxDbErrors,        \* bound: statements the database fails (lost connection, pool timeout)
  MaxEvents           \* bound: events of one operation; a receipt is left waiting beyond it

Workers == PendingWorkers \cup RunningWorkers \cup RetryWorkers

ASSUME WorkerKindsAreDisjoint ==
  /\ PendingWorkers \cap RunningWorkers = {}
  /\ PendingWorkers \cap RetryWorkers = {}
  /\ RunningWorkers \cap RetryWorkers = {}
ASSUME ProviderAssumption == ConsistentProvider \in BOOLEAN
ASSUME TextSizesAssumption == TextSizes \subseteq TextSize
ASSUME BoundsAssumption == MaxCrashes \in Nat /\ MaxDbErrors \in Nat /\ MaxEvents \in Nat

VARIABLES
  db,        \* the committed rows
  batch,     \* operation ids a worker has found and not yet processed
  call,      \* operation for which a worker is in its call, from the read of
             \* the job to the transaction after the answer, or None
  dead,      \* workers whose task ended with an exception
  sent,      \* requests that left for the provider
  payments,  \* payments the provider has created
  posted,    \* receipts the provider has posted
  crashes, dbErrors

worker == <<batch, call, dead>>
provider == <<sent, payments, posted>>
faults == <<crashes, dbErrors>>
vars == <<db, batch, call, dead, sent, payments, posted, crashes, dbErrors>>

\* ProviderClient.create_payment: what identifies the request
Request == [key : Operations, op : Operations]
Payment == [key : Operations, op : Operations, id : PaymentIds]

\* Mutants of CreatePaymentRequest: a key per attempt; one key for everything.
CreatePaymentRequestPerAttempt(o) ==
  [key |-> <<o, db[o].sendJob.attempt>>, op |-> o]

CreatePaymentRequestSharedKey(o) == [key |-> "payment", op |-> o]

CreatePaymentRequest(o) == [key |-> o, op |-> o]

\* Mutant of AcceptsPaymentId: an id can only be confirmed, not learnt.
AcceptsKnownIdOnly(o, id) == db[o].providerPaymentId = id

\* The column provider_payment_id is UNIQUE, and a different id is refused.
AcceptsPaymentId(o, id) ==
  \/ db[o].providerPaymentId = id
  \/ /\ db[o].providerPaymentId = None
     /\ \A other \in Operations : db[other].providerPaymentId # id

\* Mutant of JobState: RunningWorker does not wait for the claim.
JobStateUnclaimed(w) == IF w \in RetryWorkers THEN "WAITING_RETRY" ELSE "PENDING"

\* The state a worker looks for, and checks again before it calls the provider
JobState(w) == IF w \in PendingWorkers THEN "PENDING"
               ELSE IF w \in RunningWorkers THEN "RUNNING"
               ELSE "WAITING_RETRY"

\* Mutant of FoundJobs: next_retry_at is not looked at.
FoundJobsBeforeDue(w) == {o \in Operations : db[o].sendJob.state = JobState(w)}

\* The workers' find queries
FoundJobs(w) ==
  {o \in Operations : /\ db[o].sendJob.state = JobState(w)
                      /\ w \in RetryWorkers => db[o].sendJob.nextRetryAt = "due"}

Waiting(w) == w \notin dead /\ call[w] = None

-----------------------------------------------------------------------------
Init ==
  /\ db = [o \in Operations |-> NoRow]
  /\ batch = [w \in Workers |-> {}]
  /\ call = [w \in Workers |-> None]
  /\ dead = {}
  /\ sent = {} /\ payments = {} /\ posted = {}
  /\ crashes = 0 /\ dbErrors = 0

(* API handlers *)

\* POST /operations; an existing id is refused
CreateOperation(o) ==
  /\ db[o].status = "ABSENT"
  /\ db' = [db EXCEPT ![o] = Create(@)]
  /\ UNCHANGED <<worker, provider, faults>>

\* POST /operations/{id}/submit; in any other status it only reads
SubmitOperation(o) ==
  /\ db[o].status = "CREATED"
  /\ db' = [db EXCEPT ![o] = Submit(@)]
  /\ UNCHANGED <<worker, provider, faults>>

\* POST /receipts; an unknown operation, an id the row does not accept and a
\* message too long for its column end in an exception and a rollback
ReceiveReceipt(r) ==
  /\ r \in posted
  /\ db[r.op].status # "ABSENT"
  /\ AcceptsPaymentId(r.op, r.id)
  /\ \/ /\ db[r.op].status = "PROCESSING"
        /\ r.size = "fits"
        /\ db' = [db EXCEPT ![r.op] = CompleteOperation(@, r)]
     \/ /\ db[r.op].status # "PROCESSING"
        /\ Len(db[r.op].events) < MaxEvents
        /\ db' = [db EXCEPT ![r.op] = HandleLateReceipt(@, r)]
  /\ UNCHANGED <<worker, provider, faults>>

(* Workers *)

\* One poll: the ids are read in a transaction of their own
FindJobs(w) ==
  /\ Waiting(w)
  /\ batch[w] = {}
  /\ batch' = [batch EXCEPT ![w] = FoundJobs(w)]
  /\ UNCHANGED <<db, call, dead, provider, faults>>

\* PendingWorker._claim_job
ClaimJob(w, o) ==
  /\ w \in PendingWorkers
  /\ Waiting(w)
  /\ o \in batch[w]
  /\ batch' = [batch EXCEPT ![w] = @ \ {o}]
  /\ db' = [db EXCEPT ![o] = ClaimSendJob(@)]
  /\ UNCHANGED <<call, dead, provider, faults>>

\* Mutant of ProcessJob: the retry is planned before the call, against crashes.
ProcessJobSchedulesFirst(w, o) ==
  /\ w \notin PendingWorkers
  /\ Waiting(w)
  /\ o \in batch[w]
  /\ batch' = [batch EXCEPT ![w] = @ \ {o}]
  /\ IF db[o].sendJob.state = JobState(w)
     THEN /\ call' = [call EXCEPT ![w] = o]
          /\ db' = [db EXCEPT ![o] = MoveToRetry(@, "fits")]
     ELSE UNCHANGED <<db, call>>
  /\ UNCHANGED <<dead, provider, faults>>

\* RunningWorker._process_job and RetryWorker._process_job up to the call: the
\* row is read again, a job in another state is skipped, and the session closes
ProcessJob(w, o) ==
  /\ w \notin PendingWorkers
  /\ Waiting(w)
  /\ o \in batch[w]
  /\ batch' = [batch EXCEPT ![w] = @ \ {o}]
  /\ call' = IF db[o].sendJob.state = JobState(w) THEN [call EXCEPT ![w] = o] ELSE call
  /\ UNCHANGED <<db, dead, provider, faults>>

\* ProviderClient.create_payment, once it has a connection: the request leaves,
\* whatever has become of the job since it was read
PostPayment(w) ==
  /\ call[w] # None
  /\ sent' = sent \cup {CreatePaymentRequest(call[w])}
  /\ UNCHANGED <<db, worker, payments, posted, faults>>

\* The provider answered 202 with an id: complete_job, in a new transaction.
\* When it raises, the worker logs the exception and goes on with its batch.
CallAccepted(w, id) ==
  /\ call[w] # None
  /\ \E p \in payments : p.key = CreatePaymentRequest(call[w]).key /\ p.id = id
  /\ db' = [db EXCEPT ![call[w]] = CompleteJob(@, id, AcceptsPaymentId(call[w], id))]
  /\ call' = [call EXCEPT ![w] = None]
  /\ UNCHANGED <<batch, dead, provider, faults>>

\* Any other end of the call (no connection, transport error, timeout, another
\* status code, a body that does not validate), before or after the request
\* left: move_to_retry or record_retry_failure
CallFails(w, error) ==
  /\ call[w] # None
  /\ db' = [db EXCEPT ![call[w]] = IF w \in RunningWorkers
                                   THEN MoveToRetry(@, error)
                                   ELSE RecordRetryFailure(@, error)]
  /\ call' = [call EXCEPT ![w] = None]
  /\ UNCHANGED <<batch, dead, provider, faults>>

(* Provider: outside src/, as provider_client.py and the README use it *)

AcceptPayment(q, id) ==
  /\ q \in sent
  /\ ConsistentProvider => \A p \in payments : p.key # q.key /\ p.id # id
  /\ payments' = payments \cup {[key |-> q.key, op |-> q.op, id |-> id]}
  /\ UNCHANGED <<db, worker, sent, posted, faults>>

PostReceipt(r) ==
  /\ ConsistentProvider => \E p \in payments : p.op = r.op /\ p.id = r.id
  /\ posted' = posted \cup {r}
  /\ UNCHANGED <<db, worker, sent, payments, faults>>

(* Time and faults *)

\* next_retry_at is reached
TimePasses(o) ==
  /\ db[o].sendJob.nextRetryAt = "later"
  /\ db' = [db EXCEPT ![o].sendJob.nextRetryAt = "due"]
  /\ UNCHANGED <<worker, provider, faults>>

\* The process dies and main.py starts again with three new tasks
Crash ==
  /\ crashes < MaxCrashes
  /\ crashes' = crashes + 1
  /\ batch' = [w \in Workers |-> {}]
  /\ call' = [w \in Workers |-> None]
  /\ dead' = {}
  /\ UNCHANGED <<db, provider, dbErrors>>

\* A find query raises: PendingWorker.run catches it, the loops of the other
\* two end with it
FindFails(w) ==
  /\ Waiting(w)
  /\ batch[w] = {}
  /\ dbErrors < MaxDbErrors
  /\ dbErrors' = dbErrors + 1
  /\ dead' = IF w \in PendingWorkers THEN dead ELSE dead \cup {w}
  /\ UNCHANGED <<db, batch, call, provider, crashes>>

\* A statement of one job raises and its transaction rolls back: PendingWorker
\* abandons its batch, the others go on with the next job
JobFails(w) ==
  /\ dbErrors < MaxDbErrors
  /\ dbErrors' = dbErrors + 1
  /\ \/ /\ call[w] # None
        /\ call' = [call EXCEPT ![w] = None]
        /\ UNCHANGED batch
     \/ /\ Waiting(w)
        /\ \E o \in batch[w] :
             batch' = [batch EXCEPT ![w] = IF w \in PendingWorkers THEN {} ELSE @ \ {o}]
        /\ UNCHANGED call
  /\ UNCHANGED <<db, dead, provider, crashes>>

-----------------------------------------------------------------------------
\* What the provider may post
Receipts == {r \in Receipt : r.size \in TextSizes}

Next ==
  \/ \E o \in Operations : CreateOperation(o) \/ SubmitOperation(o) \/ TimePasses(o)
  \/ \E r \in posted : ReceiveReceipt(r)
  \/ \E w \in Workers : FindJobs(w) \/ FindFails(w) \/ JobFails(w) \/ PostPayment(w)
  \/ \E w \in Workers, o \in Operations : ClaimJob(w, o) \/ ProcessJob(w, o)
  \/ \E w \in Workers, id \in PaymentIds : CallAccepted(w, id)
  \/ \E w \in Workers, error \in TextSizes : CallFails(w, error)
  \/ \E q \in sent, id \in PaymentIds : AcceptPayment(q, id)
  \/ \E r \in Receipts : PostReceipt(r)
  \/ Crash

Spec == Init /\ [][Next]_vars

\* What the event loop, the HTTP timeouts, the clock and the provider do
\* eventually.  A poll never blocks; a call ends (httpx timeouts).  A connection
\* may be missing, a request or its answer be lost, but not for ever: where
\* RetryWorker calls again and again the request leaves once, and a provider that
\* is asked again and again takes it once and answers once.  It posts a receipt for
\* a payment it made and repeats it until it is taken.
Fairness ==
  /\ \A w \in Workers : WF_vars(FindJobs(w))
  /\ \A w \in PendingWorkers : WF_vars(\E o \in Operations : ClaimJob(w, o))
  /\ \A w \in RunningWorkers \cup RetryWorkers :
       /\ WF_vars(\E o \in Operations : ProcessJob(w, o))
       /\ WF_vars(\/ \E id \in PaymentIds : CallAccepted(w, id)
                  \/ \E error \in TextSizes : CallFails(w, error))
  /\ \A o \in Operations :
       /\ \A w \in RetryWorkers :
            /\ SF_vars(call[w] = o /\ PostPayment(w))
            /\ SF_vars(call[w] = o /\ \E q \in sent, id \in PaymentIds :
                                        q.op = o /\ AcceptPayment(q, id))
            /\ SF_vars(call[w] = o /\ \E id \in PaymentIds : CallAccepted(w, id))
       /\ WF_vars(TimePasses(o))
       /\ WF_vars(\E r \in Receipts : r.op = o /\ PostReceipt(r))
       /\ WF_vars(\E r \in posted : r.op = o /\ ReceiveReceipt(r))

FairSpec == Spec /\ Fairness

-----------------------------------------------------------------------------
(* Safety *)

\* The rows, the workers and the provider hold values of their columns and types.
TypeOK ==
  /\ db \in [Operations -> Row]
  /\ batch \in [Workers -> SUBSET Operations]
  /\ call \in [Workers -> Operations \cup {None}]
  /\ dead \subseteq Workers
  /\ sent \subseteq Request
  /\ payments \subseteq Payment
  /\ posted \subseteq Receipt
  /\ crashes \in Nat /\ dbErrors \in Nat

\* Delivery state and business state never disagree: a job exists exactly from
\* the submission on, and a settled operation has nothing left to send.
JobFollowsStatus == \A o \in Operations : JobAgreesWithStatus(db[o])

\* No delivery is closed without the provider's id: neither complete_job nor a
\* receipt ends a job whose payment could not be found again.
DeliveredHasPaymentId == \A o \in Operations : DeliveryLeavesId(db[o])

\* "WAITING_RETRY jobs always have a non-null next_retry_at": a job that waits
\* is one RetryWorker's query will find, and knows why it waits; a job that
\* never failed has no retry metadata.
RetryMetadata == \A o \in Operations : RetryIsPlanned(db[o])

\* The history an API client reads explains the status it reads: events chain
\* from creation to the current status, and a status is left at most once,
\* however receipts, answers and retries interleave.
HistoryMatchesStatus == \A o \in Operations : HistoryExplainsStatus(db[o])

\* The table of events in app/db/models/enums.py: which transition each type
\* of event records, for every event of every operation.
InTable(e) ==
  \/ e.type = "CREATED" /\ e.from = "null" /\ e.to = "CREATED"
  \/ e.type = "SUBMIT_REQUESTED" /\ e.from = "CREATED" /\ e.to = "PROCESSING"
  \/ e.type = "RECEIPT_COMPLETED" /\ e.from = "PROCESSING" /\ e.to = "COMPLETED"
  \/ e.type = "RECEIPT_REJECTED" /\ e.from = "PROCESSING" /\ e.to = "REJECTED"
  \/ e.type = "RECEIPT_IGNORED" /\ e.from \in Result /\ e.to \in Result

HistoryFollowsTable ==
  \A o \in Operations : \A i \in 1..Len(db[o].events) : InTable(db[o].events[i])

\* Only a receipt settles an operation: whatever is final was said by a receipt
\* the provider posted for this operation, with the id the row keeps.
FinalOnlyByReceipt ==
  \A o \in Operations : db[o].status \in Result =>
    \E r \in posted : /\ r.op = o
                      /\ r.result = db[o].status
                      /\ r.id = db[o].providerPaymentId

\* The intent to send is committed before anything is sent: a request, and so a
\* payment, exists only for an operation that was submitted and whose job was claimed.
IntentBeforeSend ==
  \A q \in sent : db[q.op].sendJob.state \notin {"NONE", "PENDING"}

\* A worker calls the provider for an operation only while no other worker does:
\* RunningWorker lets go of a job before RetryWorker can take it.
OneCallPerOperation ==
  \A v, w \in Workers : v # w /\ call[v] # None => call[v] # call[w]

\* However often a request is lost, repeated after a crash or retried, the
\* provider makes at most one payment of an operation.
OnePaymentPerOperation ==
  \A p, q \in payments : p.op = q.op => p = q

\* The id a row keeps is the id of that operation's own payment, whether it
\* came with the answer or with a receipt; so the two never conflict.
StoredIdIsProviders ==
  \A o \in Operations : db[o].providerPaymentId # None =>
    \E p \in payments : p.op = o /\ p.id = db[o].providerPaymentId

\* Nothing a step may take back: a final status, a stored id, a delivery that is
\* DONE, an event, an attempt that was counted.
NothingIsUndone ==
  [][\A o \in Operations :
       /\ db[o].status \in Result => db'[o].status = db[o].status
       /\ db[o].providerPaymentId # None =>
            db'[o].providerPaymentId = db[o].providerPaymentId
       /\ db[o].sendJob.state = "DONE" => db'[o].sendJob.state = "DONE"
       /\ db'[o].sendJob.attempt >= db[o].sendJob.attempt
       /\ Len(db'[o].events) >= Len(db[o].events)
       /\ \A i \in 1..Len(db[o].events) : db'[o].events[i] = db[o].events[i]]_vars

\* RetryWorker never takes up a job ahead of next_retry_at, although it checks the time
\* only in the find query and the batch may be old when its turn comes.
RetryOnlyWhenDue ==
  [][\A w \in RetryWorkers :
       call'[w] # call[w] /\ call'[w] # None =>
         db[call'[w]].sendJob.nextRetryAt = "due"]_vars

\* A receipt may settle an operation after a worker has read its job and before
\* the request leaves.  Such a late request repeats an earlier one, key and all,
\* and asks for no payment the provider does not have: the first request of an
\* operation leaves while it is PROCESSING.
LateRequestsRepeat ==
  [][\A q \in sent' \ sent : db[q.op].status = "PROCESSING"]_vars

\* README.md, RunningWorker and RetryWorker: a call that failed leaves the job
\* WAITING_RETRY with the attempt counted and the next one planned.
FailedAttemptSchedulesRetry ==
  [][\A w \in Workers, error \in TextSizes :
       CallFails(w, error) /\ db[call[w]].sendJob.state \in {"RUNNING", "WAITING_RETRY"} =>
         /\ db'[call[w]].sendJob.state = "WAITING_RETRY"
         /\ db'[call[w]].sendJob.attempt = db[call[w]].sendJob.attempt + 1
         /\ db'[call[w]].sendJob.nextRetryAt = "later"]_vars

(* The service implements the lifecycle it promises *)

ChargeOf(o) ==
  IF \E p \in payments : p.op = o
  THEN (CHOOSE p \in payments : p.op = o).id
  ELSE None

Lifecycle == INSTANCE PaymentLifecycle WITH
  status <- [o \in Operations |-> db[o].status],
  charge <- [o \in Operations |-> ChargeOf(o)],
  knownId <- [o \in Operations |-> db[o].providerPaymentId]

\* Every behaviour of workers, retries, receipts, crashes and losses is one of
\* the lifecycle: one charge, after the submission; its id; its result.
ImplementsLifecycle == Lifecycle!LifecycleSpec

\* The jobs and the calls of all workers, as the lifecycle of a job sees them.
Jobs == INSTANCE SendJobLifecycle WITH
  state <- [o \in Operations |-> db[o].sendJob.state],
  attempt <- [o \in Operations |-> db[o].sendJob.attempt],
  taken <- {call[w] : w \in Workers} \ {None}

\* Stale batches, receipts between a read and its request or before an answer,
\* rollbacks and crashes leave a job on its way: claimed before it is taken up, by
\* one worker at a time, an attempt counted for each failed call that was
\* recorded and for nothing else.
ImplementsJobs == Jobs!JobsSpec

(* Liveness *)

\* Every submitted operation is delivered, whatever crashes and failed calls
\* come first.
SubmittedIsDelivered ==
  \A o \in Operations :
    db[o].sendJob.state = "PENDING" ~> db[o].sendJob.state = "DONE"

\* Every submitted operation ends in a final status.
SubmittedIsSettled ==
  \A o \in Operations : db[o].status = "PROCESSING" ~> db[o].status \in Result
=============================================================================
