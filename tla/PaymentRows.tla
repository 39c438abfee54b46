---------------------------- MODULE PaymentRows ----------------------------
(***************************************************************************)
(* The rows the service keeps in PostgreSQL (app/db/models) and the bodies *)
(* of the transactions the services run on them (app/services).  A row is  *)
(* one operation with its SendJob and its events; a transaction body is a  *)
(* function from the row read under SELECT ... FOR UPDATE to the row it    *)
(* commits.  An early return, an exception and a rollback all leave the    *)
(* row as it was.                                                          *)
(*                                                                         *)
(* Abstracted: amount, currency and description (written once, at          *)
(* creation), created_at / updated_at, message texts (only whether a text  *)
(* fits its column is kept, see TextSize) and wall-clock time (next_retry_ *)
(* at is "null", still in the future, or reached).                         *)
(***************************************************************************)
EXTENDS Naturals, Sequences

CONSTANTS
  Operations,   \* operation ids
  PaymentIds,   \* provider payment ids
  None,         \* SQL NULL / Python None for an id
  MaxAttempt    \* last attempt RetryPolicy can schedule: 1.0 * 2 ** (attempt - 1)
                \* leaves the range of a float at attempt 1025, so 1024 in the code

ASSUME NoneIsNoId == None \notin PaymentIds /\ None \notin Operations
ASSUME MaxAttemptIsPositive == MaxAttempt \in Nat \ {0}

-----------------------------------------------------------------------------
(* Types *)

Result == {"COMPLETED", "REJECTED"}
OperationStatus == {"CREATED", "PROCESSING"} \cup Result
SendJobState == {"PENDING", "RUNNING", "WAITING_RETRY", "DONE"}
EventType == {"CREATED", "SUBMIT_REQUESTED", "RECEIPT_COMPLETED",
              "RECEIPT_REJECTED", "RECEIPT_IGNORED"}
RetryTime == {"null", "later", "due"}

\* Whether a text fits the VARCHAR it is stored in.
TextSize == {"fits", "too_long"}

\* state "NONE" stands for: no send_jobs row.
SendJob == [state : SendJobState \cup {"NONE"}, attempt : Nat,
            nextRetryAt : RetryTime, lastError : {"null", "set"}]

\* sequence_no is the position of the event in the sequence.
Event == [type : EventType, from : OperationStatus \cup {"null"},
          to : OperationStatus]

\* status "ABSENT" stands for: no operations row.
Row == [status : OperationStatus \cup {"ABSENT"},
        providerPaymentId : PaymentIds \cup {None},
        sendJob : SendJob,
        events : Seq(Event)]

Receipt == [op : Operations, id : PaymentIds, result : Result, size : TextSize]

NoSendJob == [state |-> "NONE", attempt |-> 0,
              nextRetryAt |-> "null", lastError |-> "null"]

NoRow == [status |-> "ABSENT", providerPaymentId |-> None,
          sendJob |-> NoSendJob, events |-> <<>>]

-----------------------------------------------------------------------------
(* Transaction bodies *)

\* EventService.create_event: the event takes the next sequence number.
CreateEvent(row, type, from, to) ==
  Append(row.events, [type |-> type, from |-> from, to |-> to])

\* OperationService.create
Create(row) ==
  [row EXCEPT !.status = "CREATED",
              !.events = CreateEvent(row, "CREATED", "null", "CREATED")]

\* Mutant of Submit: no event.
SubmitWithoutEvent(row) ==
  [row EXCEPT !.status = "PROCESSING",
              !.sendJob = [NoSendJob EXCEPT !.state = "PENDING"]]

\* OperationService.submit, for an operation that is CREATED
Submit(row) ==
  [row EXCEPT !.status = "PROCESSING",
              !.sendJob = [NoSendJob EXCEPT !.state = "PENDING"],
              !.events = CreateEvent(row, "SUBMIT_REQUESTED", "CREATED", "PROCESSING")]

\* Mutant of ClaimSendJob: marks the operation instead of its job.
ClaimMarksOperation(row) ==
  IF row.sendJob.state = "PENDING" THEN [row EXCEPT !.status = "RUNNING"] ELSE row

\* SendJobService.claim_send_job
ClaimSendJob(row) ==
  IF row.sendJob.state = "PENDING"
  THEN [row EXCEPT !.sendJob.state = "RUNNING"]
  ELSE row

\* Mutants of CompleteJob: the id is lost; the answer settles the operation.
CompleteJobLosesId(row, id, storable) ==
  IF storable /\ row.sendJob.state \in {"RUNNING", "WAITING_RETRY"}
  THEN [row EXCEPT !.sendJob.state = "DONE"]
  ELSE row

CompleteJobSettles(row, id, storable) ==
  IF storable /\ row.sendJob.state \in {"RUNNING", "WAITING_RETRY"}
  THEN [row EXCEPT !.providerPaymentId = id, !.sendJob.state = "DONE",
                   !.status = "COMPLETED"]
  ELSE row

\* SendJobService.complete_job.  storable says whether the id may be stored
\* in this row: it raises on a different id, and on a duplicate one.
CompleteJob(row, id, storable) ==
  IF storable /\ row.sendJob.state \in {"RUNNING", "WAITING_RETRY"}
  THEN [row EXCEPT !.providerPaymentId = id,
                   !.sendJob = [@ EXCEPT !.state = "DONE", !.nextRetryAt = "null",
                                         !.lastError = "null"]]
  ELSE row

\* SendJobService._schedule_retry and RetryPolicy.next_retry_at raise past
\* MaxAttempt, and last_error VARCHAR(500) refuses a text that is too long.
Schedulable(job, error) == job.attempt < MaxAttempt /\ error = "fits"

ScheduleRetry(job) ==
  [job EXCEPT !.attempt = @ + 1, !.nextRetryAt = "later", !.lastError = "set"]

\* Mutants of MoveToRetry: no retry is scheduled; the job is not looked at.
MoveToRetryUnscheduled(row, error) ==
  IF row.sendJob.state = "RUNNING"
  THEN [row EXCEPT !.sendJob.state = "WAITING_RETRY"]
  ELSE row

MoveToRetryBlindly(row, error) ==
  IF Schedulable(row.sendJob, error)
  THEN [row EXCEPT !.sendJob = [ScheduleRetry(@) EXCEPT !.state = "WAITING_RETRY"]]
  ELSE row

\* SendJobService.move_to_retry
MoveToRetry(row, error) ==
  IF row.sendJob.state = "RUNNING" /\ Schedulable(row.sendJob, error)
  THEN [row EXCEPT !.sendJob = [ScheduleRetry(@) EXCEPT !.state = "WAITING_RETRY"]]
  ELSE row

\* SendJobService.record_retry_failure
RecordRetryFailure(row, error) ==
  IF row.sendJob.state = "WAITING_RETRY" /\ Schedulable(row.sendJob, error)
  THEN [row EXCEPT !.sendJob = ScheduleRetry(@)]
  ELSE row

\* Mutants of CompleteOperation: the job is left to be sent again; the event
\* reads the status after it was assigned.
CompleteOperationKeepsJob(row, receipt) ==
  [row EXCEPT
     !.status = receipt.result,
     !.providerPaymentId = receipt.id,
     !.events = CreateEvent(row, IF receipt.result = "COMPLETED" THEN "RECEIPT_COMPLETED"
                                                               ELSE "RECEIPT_REJECTED",
                            row.status, receipt.result)]

CompleteOperationReadsNewStatus(row, receipt) ==
  [row EXCEPT
     !.status = receipt.result,
     !.providerPaymentId = receipt.id,
     !.sendJob.state = "DONE",
     !.events = CreateEvent(row, IF receipt.result = "COMPLETED" THEN "RECEIPT_COMPLETED"
                                                               ELSE "RECEIPT_REJECTED",
                            receipt.result, receipt.result)]

\* ReceiptService._complete_operation, for an operation that is PROCESSING
CompleteOperation(row, receipt) ==
  [row EXCEPT
     !.status = receipt.result,
     !.providerPaymentId = receipt.id,
     !.sendJob = IF @.state = "NONE" THEN @ ELSE [@ EXCEPT !.state = "DONE"],
     !.events = CreateEvent(row, IF receipt.result = "COMPLETED" THEN "RECEIPT_COMPLETED"
                                                               ELSE "RECEIPT_REJECTED",
                            row.status, receipt.result)]

\* Mutants of HandleLateReceipt: the event claims a transition; the last receipt wins.
HandleLateReceiptClaimsChange(row, receipt) ==
  [row EXCEPT
     !.providerPaymentId = receipt.id,
     !.events = IF row.status = receipt.result
                THEN @
                ELSE CreateEvent(row, "RECEIPT_IGNORED", row.status, receipt.result)]

HandleLateReceiptWins(row, receipt) ==
  [row EXCEPT !.providerPaymentId = receipt.id, !.status = receipt.result]

\* ReceiptService._handle_late_receipt, for any other status
HandleLateReceipt(row, receipt) ==
  [row EXCEPT
     !.providerPaymentId = receipt.id,
     !.events = IF row.status = receipt.result
                THEN @
                ELSE CreateEvent(row, "RECEIPT_IGNORED", row.status, row.status)]

-----------------------------------------------------------------------------
(* What every committed row satisfies *)

\* A job exists exactly from the submission on, and a settled operation has
\* nothing left to send.
JobAgreesWithStatus(row) ==
  /\ row.sendJob.state = "NONE" <=> row.status \in {"ABSENT", "CREATED"}
  /\ row.status \in Result => row.sendJob.state = "DONE"

\* A delivery that is over left the provider's id behind.
DeliveryLeavesId(row) ==
  row.sendJob.state = "DONE" => row.providerPaymentId # None

\* A job that waits was counted and has its next attempt planned; a job that
\* never failed has no retry metadata.
RetryIsPlanned(row) ==
  /\ row.sendJob.state = "WAITING_RETRY" =>
       /\ row.sendJob.attempt > 0
       /\ row.sendJob.nextRetryAt # "null"
       /\ row.sendJob.lastError = "set"
  /\ row.sendJob.state \in {"NONE", "PENDING", "RUNNING"} =>
       row.sendJob = [NoSendJob EXCEPT !.state = row.sendJob.state]

\* The events chain from the creation to the current status, and only ignored
\* receipts leave the status where it was.
HistoryExplainsStatus(row) ==
  /\ row.events = <<>> <=> row.status = "ABSENT"
  /\ row.events # <<>> =>
       /\ row.events[1] = [type |-> "CREATED", from |-> "null", to |-> "CREATED"]
       /\ row.events[Len(row.events)].to = row.status
  /\ \A i \in 2..Len(row.events) :
       /\ row.events[i].from = row.events[i-1].to
       /\ row.events[i].from = row.events[i].to <=> row.events[i].type = "RECEIPT_IGNORED"
=============================================================================
