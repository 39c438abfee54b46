------------------------- MODULE PaymentRowsProofs -------------------------
(***************************************************************************)
(* Lemmas about the transaction bodies of PaymentRows: each one takes a    *)
(* row that is RowOK to a row that is RowOK.                               *)
(***************************************************************************)
EXTENDS PaymentRows, TLAPS

RowOK(row) ==
  /\ row \in Row
  /\ JobAgreesWithStatus(row)
  /\ DeliveryLeavesId(row)
  /\ RetryIsPlanned(row)
  /\ HistoryExplainsStatus(row)

\* The part of RowOK that a body leaves alone when it writes no event.
LEMMA SameHistory ==
  ASSUME NEW row, NEW row1,
         row1.events = row.events, row1.status = row.status,
         HistoryExplainsStatus(row)
  PROVE  HistoryExplainsStatus(row1)
BY DEF HistoryExplainsStatus

\* EventService.create_event: an event that starts from the current status
\* extends a history that explains it to one that explains the next status.
LEMMA CreateEventExtends ==
  ASSUME NEW row \in Row, HistoryExplainsStatus(row), row.status # "ABSENT",
         NEW type \in EventType, NEW to \in OperationStatus,
         row.status = to <=> type = "RECEIPT_IGNORED",
         NEW row1, row1.status = to,
         row1.events = CreateEvent(row, type, row.status, to)
  PROVE  /\ row1.events \in Seq(Event)
         /\ HistoryExplainsStatus(row1)
<1> DEFINE e == [type |-> type, from |-> row.status, to |-> to]
           n == Len(row.events)
<1>1. row.events \in Seq(Event) /\ row.events # <<>> /\ e \in Event
  BY DEF Row, HistoryExplainsStatus, Event
<1>2. /\ row1.events = Append(row.events, e)
      /\ row1.events \in Seq(Event)
      /\ n \in Nat \ {0}
      /\ Len(row1.events) = n + 1
      /\ row1.events[n + 1] = e
      /\ \A i \in 1..n : row1.events[i] = row.events[i]
  BY <1>1 DEF CreateEvent
<1>3. row1.events # <<>> /\ row1.status # "ABSENT"
  BY <1>2 DEF OperationStatus, Result
<1>4. /\ row1.events[1] = [type |-> "CREATED", from |-> "null", to |-> "CREATED"]
      /\ row1.events[Len(row1.events)].to = row1.status
  BY <1>1, <1>2 DEF HistoryExplainsStatus
<1>5. ASSUME NEW i \in 2..Len(row1.events)
      PROVE  /\ row1.events[i].from = row1.events[i-1].to
             /\ row1.events[i].from = row1.events[i].to
                  <=> row1.events[i].type = "RECEIPT_IGNORED"
  <2>1. CASE i \in 2..n
    <3>1. i \in 1..n /\ i - 1 \in 1..n
      BY <1>2, <2>1
    <3>2. row1.events[i] = row.events[i] /\ row1.events[i-1] = row.events[i-1]
      BY <1>2, <3>1
    <3> QED BY <2>1, <3>2 DEF HistoryExplainsStatus
  <2>2. CASE i = n + 1
    <3>1. row1.events[i] = e /\ row1.events[i-1] = row.events[n]
      BY <1>2, <2>2
    <3>2. row.events[n].to = row.status
      BY <1>1 DEF HistoryExplainsStatus
    <3> QED BY <3>1, <3>2
  <2> QED BY <1>2, <2>1, <2>2
<1> QED BY <1>2, <1>3, <1>4, <1>5 DEF HistoryExplainsStatus

\* A row without events is the beginning of every history.
LEMMA NoRowOK == RowOK(NoRow)
BY NoneIsNoId DEF RowOK, NoRow, NoSendJob, Row, SendJob, SendJobState, RetryTime, Event,
  JobAgreesWithStatus, DeliveryLeavesId, RetryIsPlanned, HistoryExplainsStatus, Result

LEMMA CreateOK ==
  ASSUME NEW row, RowOK(row), row.status = "ABSENT",
         NEW row1, row1 = Create(row)
  PROVE  RowOK(row1)
<1> DEFINE e == [type |-> "CREATED", from |-> "null", to |-> "CREATED"]
<1>1. row \in Row /\ row.events = <<>>
  BY DEF RowOK, HistoryExplainsStatus
<1>2. e \in Event
  BY DEF Event, EventType, OperationStatus
<1>3. /\ row1 = [row EXCEPT !.status = "CREATED", !.events = <<e>>]
      /\ <<e>> \in Seq(Event)
  BY <1>1, <1>2 DEF Create, CreateEvent
<1>4. row1 \in Row
  BY <1>1, <1>3 DEF Row, OperationStatus
<1>5. row1.events = <<e>> /\ row1.status = "CREATED" /\ row1.sendJob = row.sendJob
      /\ row1.providerPaymentId = row.providerPaymentId
  BY <1>1, <1>3 DEF Row
<1>6. HistoryExplainsStatus(row1)
  BY <1>5 DEF HistoryExplainsStatus
<1>7. JobAgreesWithStatus(row1) /\ DeliveryLeavesId(row1) /\ RetryIsPlanned(row1)
  BY <1>5 DEF RowOK, JobAgreesWithStatus, DeliveryLeavesId, RetryIsPlanned, Result
<1> QED BY <1>4, <1>6, <1>7 DEF RowOK

LEMMA SubmitOK ==
  ASSUME NEW row, RowOK(row), row.status = "CREATED",
         NEW row1, row1 = Submit(row)
  PROVE  RowOK(row1)
<1> DEFINE history == CreateEvent(row, "SUBMIT_REQUESTED", row.status, "PROCESSING")
           job == [NoSendJob EXCEPT !.state = "PENDING"]
<1>1. row \in Row /\ row.sendJob.state = "NONE" /\ row.sendJob \in SendJob
  BY DEF RowOK, JobAgreesWithStatus, Row
<1>2. /\ row1.status = "PROCESSING" /\ row1.events = history
      /\ row1.sendJob = job
      /\ row1.providerPaymentId = row.providerPaymentId
  BY <1>1 DEF Submit, Row
<1>3. row1.events \in Seq(Event) /\ HistoryExplainsStatus(row1)
  BY <1>1, <1>2, CreateEventExtends DEF RowOK, EventType, OperationStatus
<1>4. job \in SendJob
  BY DEF NoSendJob, SendJob, SendJobState, RetryTime
<1>5. row1 \in Row
  BY <1>1, <1>2, <1>3, <1>4 DEF Submit, Row, OperationStatus
<1>6. JobAgreesWithStatus(row1) /\ DeliveryLeavesId(row1) /\ RetryIsPlanned(row1)
  BY <1>2 DEF JobAgreesWithStatus, DeliveryLeavesId, RetryIsPlanned, Result, NoSendJob
<1> QED BY <1>3, <1>5, <1>6 DEF RowOK

\* A body that writes only the job and, with it, perhaps the id.
LEMMA JobStepOK ==
  ASSUME NEW row, RowOK(row), row.sendJob.state # "NONE",
         NEW id \in PaymentIds \cup {None}, NEW job \in SendJob, job.state # "NONE",
         row.sendJob.state = "DONE" => job.state = "DONE",
         job.state = "DONE" => id # None,
         NEW row1, row1 = [row EXCEPT !.providerPaymentId = id, !.sendJob = job],
         RetryIsPlanned(row1)
  PROVE  RowOK(row1)
<1>1. row \in Row
  BY DEF RowOK
<1>2. /\ row1.status = row.status /\ row1.events = row.events
      /\ row1.sendJob = job /\ row1.providerPaymentId = id
      /\ row1 \in Row
  BY <1>1 DEF Row
<1>3. HistoryExplainsStatus(row1)
  BY <1>2, SameHistory DEF RowOK
<1>4. JobAgreesWithStatus(row1) /\ DeliveryLeavesId(row1)
  BY <1>2 DEF RowOK, JobAgreesWithStatus, DeliveryLeavesId
<1> QED BY <1>2, <1>3, <1>4 DEF RowOK

LEMMA ClaimSendJobOK ==
  ASSUME NEW row, RowOK(row), NEW row1, row1 = ClaimSendJob(row)
  PROVE  RowOK(row1)
<1>1. CASE row.sendJob.state # "PENDING"
  BY <1>1 DEF ClaimSendJob
<1>2. CASE row.sendJob.state = "PENDING"
  <2> DEFINE job == [row.sendJob EXCEPT !.state = "RUNNING"]
             id == row.providerPaymentId
  <2>1. row \in Row /\ row.sendJob \in SendJob
    BY DEF RowOK, Row
  <2>2. row.sendJob = [NoSendJob EXCEPT !.state = "PENDING"]
    BY <1>2 DEF RowOK, RetryIsPlanned
  <2>3. job \in SendJob /\ job.state = "RUNNING"
    BY <2>1 DEF SendJob, SendJobState
  <2>4. row1 = [row EXCEPT !.providerPaymentId = id, !.sendJob = job]
        /\ id \in PaymentIds \cup {None}
    BY <1>2, <2>1 DEF ClaimSendJob, Row
  <2>5. row1.sendJob = job
    BY <2>1, <2>4 DEF Row
  <2>6. RetryIsPlanned(row1)
    BY <2>2, <2>3, <2>5 DEF RetryIsPlanned, NoSendJob
  <2> HIDE DEF job, id
  <2> QED BY <1>2, <2>3, <2>4, <2>6, JobStepOK
<1> QED BY <1>1, <1>2

LEMMA CompleteJobOK ==
  ASSUME NEW row, RowOK(row), NEW id \in PaymentIds, NEW storable \in BOOLEAN,
         NEW row1, row1 = CompleteJob(row, id, storable)
  PROVE  RowOK(row1)
<1>1. CASE ~(storable /\ row.sendJob.state \in {"RUNNING", "WAITING_RETRY"})
  BY <1>1 DEF CompleteJob
<1>2. CASE storable /\ row.sendJob.state \in {"RUNNING", "WAITING_RETRY"}
  <2> DEFINE job == [row.sendJob EXCEPT !.state = "DONE", !.nextRetryAt = "null",
                                        !.lastError = "null"]
  <2>1. row \in Row /\ row.sendJob \in SendJob
    BY DEF RowOK, Row
  <2>2. job \in SendJob /\ job.state = "DONE"
    BY <2>1 DEF SendJob, SendJobState, RetryTime
  <2>3. row1 = [row EXCEPT !.providerPaymentId = id, !.sendJob = job]
    BY <1>2, <2>1 DEF CompleteJob, Row
  <2>4. row1.sendJob = job
    BY <2>1, <2>3 DEF Row
  <2>5. RetryIsPlanned(row1)
    BY <2>2, <2>4 DEF RetryIsPlanned
  <2>6. id # None
    BY NoneIsNoId
  <2> HIDE DEF job
  <2> QED BY <1>2, <2>2, <2>3, <2>5, <2>6, JobStepOK
<1> QED BY <1>1, <1>2

\* _schedule_retry: the attempt is counted and the next one is planned.
LEMMA ScheduleRetryPlans ==
  ASSUME NEW job \in SendJob
  PROVE  /\ ScheduleRetry(job) \in SendJob
         /\ ScheduleRetry(job).state = job.state
         /\ ScheduleRetry(job).attempt = job.attempt + 1
         /\ ScheduleRetry(job).nextRetryAt = "later"
         /\ ScheduleRetry(job).lastError = "set"
<1> DEFINE next == ScheduleRetry(job)
<1>1. job.attempt + 1 \in Nat /\ "later" \in RetryTime
  BY DEF SendJob, RetryTime
<1>2. /\ next.state = job.state /\ next.attempt = job.attempt + 1
      /\ next.nextRetryAt = "later" /\ next.lastError = "set"
  BY DEF ScheduleRetry, SendJob
<1>3. next \in SendJob
  BY <1>1 DEF ScheduleRetry, SendJob
<1> QED BY <1>2, <1>3

\* move_to_retry and record_retry_failure leave a job that waits.
LEMMA FailureOK ==
  ASSUME NEW row, RowOK(row), NEW error,
         NEW row1, row1 = MoveToRetry(row, error) \/ row1 = RecordRetryFailure(row, error)
  PROVE  RowOK(row1)
<1> DEFINE scheduled == ScheduleRetry(row.sendJob)
           moved == [scheduled EXCEPT !.state = "WAITING_RETRY"]
           id == row.providerPaymentId
<1>1. row \in Row /\ row.sendJob \in SendJob /\ row.sendJob.attempt \in Nat
      /\ id \in PaymentIds \cup {None}
  BY DEF RowOK, Row, SendJob
<1>2. /\ scheduled \in SendJob /\ scheduled.state = row.sendJob.state
      /\ scheduled.attempt = row.sendJob.attempt + 1
      /\ scheduled.nextRetryAt = "later" /\ scheduled.lastError = "set"
  BY <1>1, ScheduleRetryPlans
<1>3. CASE row1 = row
  BY <1>3
<1>4. ASSUME row.sendJob.state \in {"RUNNING", "WAITING_RETRY"},
             NEW job \in {scheduled, moved}, job.state = "WAITING_RETRY",
             row1 = [row EXCEPT !.sendJob = job]
      PROVE  RowOK(row1)
  <2> HIDE DEF scheduled
  <2>1. /\ job \in SendJob /\ job.attempt = row.sendJob.attempt + 1
        /\ job.nextRetryAt = "later" /\ job.lastError = "set"
    BY <1>2, <1>4 DEF SendJob, SendJobState
  <2> HIDE DEF moved
  <2>2. row1 = [row EXCEPT !.providerPaymentId = id, !.sendJob = job]
        /\ row1.sendJob = job
    BY <1>1, <1>4 DEF Row
  <2>3. RetryIsPlanned(row1)
    BY <1>1, <1>4, <2>1, <2>2 DEF RetryIsPlanned
  <2>4. row.sendJob.state \notin {"NONE", "DONE"} /\ job.state \notin {"NONE", "DONE"}
    BY <1>4
  <2> HIDE DEF id
  <2> QED BY ONLY RowOK(row), <1>1, <2>1, <2>2, <2>3, <2>4, JobStepOK
<1>5. CASE row1 = MoveToRetry(row, error) /\ row1 # row
  <2>1. row.sendJob.state = "RUNNING" /\ row1 = [row EXCEPT !.sendJob = moved]
    BY <1>1, <1>5 DEF MoveToRetry
  <2>2. moved.state = "WAITING_RETRY"
    BY <1>2 DEF SendJob
  <2> HIDE DEF moved, scheduled
  <2> QED BY <1>4, <2>1, <2>2
<1>6. CASE row1 = RecordRetryFailure(row, error) /\ row1 # row
  <2>1. row.sendJob.state = "WAITING_RETRY" /\ row1 = [row EXCEPT !.sendJob = scheduled]
    BY <1>1, <1>6 DEF RecordRetryFailure
  <2> HIDE DEF moved, scheduled
  <2> QED BY <1>2, <1>4, <2>1
<1> QED BY <1>3, <1>5, <1>6

\* The retry time of a planned retry is reached.
LEMMA DueOK ==
  ASSUME NEW row, RowOK(row), row.sendJob.nextRetryAt = "later",
         NEW row1, row1 = [row EXCEPT !.sendJob.nextRetryAt = "due"]
  PROVE  RowOK(row1)
<1> DEFINE job == [row.sendJob EXCEPT !.nextRetryAt = "due"]
           id == row.providerPaymentId
<1>1. row \in Row /\ row.sendJob \in SendJob
  BY DEF RowOK, Row
<1>2. row.sendJob.state \in {"WAITING_RETRY", "DONE"}
  <2>1. row.sendJob.state \notin {"NONE", "PENDING", "RUNNING"}
    BY DEF RowOK, RetryIsPlanned, NoSendJob
  <2> QED BY <1>1, <2>1 DEF SendJob, SendJobState
<1>3. /\ job \in SendJob /\ job.state = row.sendJob.state
      /\ job.attempt = row.sendJob.attempt /\ job.lastError = row.sendJob.lastError
      /\ job.nextRetryAt = "due"
  BY <1>1 DEF SendJob, RetryTime
<1>4. row1 = [row EXCEPT !.providerPaymentId = id, !.sendJob = job]
      /\ id \in PaymentIds \cup {None}
  BY <1>1 DEF Row
<1>5. row1.sendJob = job
  BY <1>1, <1>4 DEF Row
<1>6. job.state = "DONE" => id # None
  BY <1>3 DEF RowOK, DeliveryLeavesId
<1> HIDE DEF job, id
<1>7. RetryIsPlanned(row1)
  BY <1>2, <1>3, <1>5 DEF RowOK, RetryIsPlanned
<1>8. row.sendJob.state # "NONE" /\ job.state # "NONE"
      /\ (row.sendJob.state = "DONE" => job.state = "DONE")
  BY <1>2, <1>3
<1> QED BY ONLY RowOK(row), <1>3, <1>4, <1>6, <1>7, <1>8, JobStepOK

LEMMA CompleteOperationOK ==
  ASSUME NEW row, RowOK(row), row.status = "PROCESSING", NEW receipt \in Receipt,
         NEW row1, row1 = CompleteOperation(row, receipt)
  PROVE  RowOK(row1)
<1> DEFINE type == IF receipt.result = "COMPLETED" THEN "RECEIPT_COMPLETED"
                                                  ELSE "RECEIPT_REJECTED"
           job == [row.sendJob EXCEPT !.state = "DONE"]
<1>1. /\ row \in Row /\ row.sendJob \in SendJob /\ row.sendJob.state # "NONE"
      /\ receipt.result \in {"COMPLETED", "REJECTED"} /\ receipt.id \in PaymentIds
  BY DEF RowOK, Row, JobAgreesWithStatus, Receipt, Result
<1>2. job \in SendJob /\ job.state = "DONE"
  BY <1>1 DEF SendJob, SendJobState
<1>3. /\ row1.status = receipt.result /\ row1.providerPaymentId = receipt.id
      /\ row1.sendJob = job /\ row1.events = CreateEvent(row, type, row.status, receipt.result)
      /\ row1 = [row EXCEPT !.status = receipt.result, !.providerPaymentId = receipt.id,
                            !.sendJob = job, !.events = row1.events]
  BY <1>1 DEF CompleteOperation, Row
<1>4. type \in EventType /\ type # "RECEIPT_IGNORED" /\ receipt.result \in OperationStatus
  BY <1>1 DEF EventType, OperationStatus, Result
<1> HIDE DEF type, job
<1>5. row1.events \in Seq(Event) /\ HistoryExplainsStatus(row1)
  <2>1. row.status # "ABSENT" /\ (row.status = receipt.result <=> type = "RECEIPT_IGNORED")
    BY <1>1, <1>4
  <2>2. HistoryExplainsStatus(row)
    BY DEF RowOK
  <2>3. row1.status = receipt.result /\ row1.events = CreateEvent(row, type, row.status, receipt.result)
    BY <1>3
  <2> QED BY ONLY <1>1, <1>4, <2>1, <2>2, <2>3, CreateEventExtends
<1>6. row1 \in Row
  BY <1>1, <1>2, <1>3, <1>4, <1>5 DEF Row
<1>7. JobAgreesWithStatus(row1) /\ DeliveryLeavesId(row1) /\ RetryIsPlanned(row1)
  BY <1>1, <1>2, <1>3, NoneIsNoId DEF JobAgreesWithStatus, DeliveryLeavesId, RetryIsPlanned
<1> QED BY <1>5, <1>6, <1>7 DEF RowOK

LEMMA HandleLateReceiptOK ==
  ASSUME NEW row, RowOK(row), row.status # "ABSENT", NEW receipt \in Receipt,
         NEW row1, row1 = HandleLateReceipt(row, receipt)
  PROVE  RowOK(row1)
<1>1. /\ row \in Row /\ receipt.id \in PaymentIds
      /\ row.status \in OperationStatus /\ row.events \in Seq(Event)
  BY DEF RowOK, Row, Receipt
<1>2. /\ row1.status = row.status /\ row1.providerPaymentId = receipt.id
      /\ row1.sendJob = row.sendJob
      /\ row1 = [row EXCEPT !.providerPaymentId = receipt.id, !.events = row1.events]
      /\ \/ row1.events = row.events
         \/ row1.events = CreateEvent(row, "RECEIPT_IGNORED", row.status, row.status)
  BY <1>1 DEF HandleLateReceipt, Row
<1>3. row1.events \in Seq(Event) /\ HistoryExplainsStatus(row1)
  <2>1. CASE row1.events = row.events
    BY <1>1, <1>2, <2>1, SameHistory DEF RowOK
  <2>2. CASE row1.events = CreateEvent(row, "RECEIPT_IGNORED", row.status, row.status)
    BY <1>1, <1>2, <2>2, CreateEventExtends DEF RowOK, EventType
  <2> QED BY <1>2, <2>1, <2>2
<1>4. row1 \in Row
  BY <1>1, <1>2, <1>3 DEF Row
<1>5. JobAgreesWithStatus(row1) /\ DeliveryLeavesId(row1) /\ RetryIsPlanned(row1)
  BY <1>1, <1>2, NoneIsNoId DEF RowOK, JobAgreesWithStatus, DeliveryLeavesId, RetryIsPlanned
<1> QED BY <1>3, <1>4, <1>5 DEF RowOK
-----------------------------------------------------------------------------
(* An answer and receipts in any order *)

\* A receipt that comes again settles nothing twice: ReceiptService takes it for
\* a late one and leaves the row as the first one left it.
THEOREM ReceiptIsIdempotent ==
  ASSUME NEW row, RowOK(row), row.status = "PROCESSING", NEW receipt \in Receipt
  PROVE  HandleLateReceipt(CompleteOperation(row, receipt), receipt)
           = CompleteOperation(row, receipt)
<1> DEFINE row1 == CompleteOperation(row, receipt)
<1>1. row \in Row
  BY DEF RowOK
<1>2. row1.status = receipt.result /\ row1.providerPaymentId = receipt.id
  BY <1>1 DEF CompleteOperation, Row
<1>3. row1 = [row1 EXCEPT !.providerPaymentId = @, !.events = @]
  BY <1>1 DEF CompleteOperation, Row
<1> HIDE DEF row1
<1>4. HandleLateReceipt(row1, receipt) = row1
  BY <1>2, <1>3 DEF HandleLateReceipt
<1> QED BY <1>4 DEF row1

\* A settled operation and a receipt it accepts (its own payment's): one that
\* agrees changes nothing, one that contradicts adds its RECEIPT_IGNORED event
\* and changes nothing else.
LEMMA LateReceiptOnlyAddsEvent ==
  ASSUME NEW row, RowOK(row), row.status \in Result,
         NEW receipt \in Receipt, receipt.id = row.providerPaymentId
  PROVE  HandleLateReceipt(row, receipt) =
           IF receipt.result = row.status
           THEN row
           ELSE [row EXCEPT !.events = CreateEvent(row, "RECEIPT_IGNORED", row.status, row.status)]
<1>1. row \in Row
  BY DEF RowOK
<1>2. row = [row EXCEPT !.providerPaymentId = @, !.events = @]
  BY <1>1 DEF Row
<1>3. \A events : [row EXCEPT !.providerPaymentId = receipt.id, !.events = events]
                    = [row EXCEPT !.events = events]
  BY <1>1 DEF Row
<1> QED BY <1>2, <1>3 DEF HandleLateReceipt

\* The answer to the POST and the receipt for the same payment may overtake each
\* other: in both orders the operation ends with the same status, id, history,
\* delivery and count of attempts.  Only the metadata of a planned retry differs:
\* complete_job clears it, a receipt that comes first leaves it in place.
THEOREM AnswerAndReceiptCommute ==
  ASSUME NEW row, RowOK(row), row.status = "PROCESSING",
         row.sendJob.state \in {"RUNNING", "WAITING_RETRY"},
         NEW receipt \in Receipt,
         NEW answerFirst,
         answerFirst = CompleteOperation(CompleteJob(row, receipt.id, TRUE), receipt),
         NEW receiptFirst,
         receiptFirst = CompleteJob(CompleteOperation(row, receipt), receipt.id, TRUE)
  PROVE  answerFirst = [receiptFirst EXCEPT !.sendJob.nextRetryAt = "null",
                                            !.sendJob.lastError = "null"]
<1> DEFINE job == row.sendJob
           done == [job EXCEPT !.state = "DONE"]
           type == IF receipt.result = "COMPLETED" THEN "RECEIPT_COMPLETED"
                                                  ELSE "RECEIPT_REJECTED"
           events == CreateEvent(row, type, row.status, receipt.result)
           Ends(j) == [row EXCEPT !.status = receipt.result, !.providerPaymentId = receipt.id,
                                  !.sendJob = j, !.events = events]
<1>1. row \in Row /\ job \in SendJob /\ job.state \notin {"NONE", "DONE"}
  BY DEF RowOK, Row
<1>2. done \in SendJob /\ done.state = "DONE" /\ done.nextRetryAt = job.nextRetryAt
  BY <1>1 DEF SendJob, SendJobState
<1>3. receiptFirst = Ends(done)
  <2>1. CompleteOperation(row, receipt) = Ends(done)
    BY <1>1 DEF CompleteOperation, Row
  <2>2. Ends(done).sendJob = done
    BY <1>1 DEF Row
  <2> HIDE DEF Ends, done
  <2> QED BY <1>2, <2>1, <2>2 DEF CompleteJob
<1>4. answerFirst = Ends([done EXCEPT !.nextRetryAt = "null", !.lastError = "null"])
  <2> DEFINE cleared == [job EXCEPT !.state = "DONE", !.nextRetryAt = "null",
                                    !.lastError = "null"]
             row1 == [row EXCEPT !.providerPaymentId = receipt.id, !.sendJob = cleared]
  <2>1. CompleteJob(row, receipt.id, TRUE) = row1
    BY <1>1 DEF CompleteJob, Row
  <2>2. /\ cleared.state = "DONE" /\ [cleared EXCEPT !.state = "DONE"] = cleared
        /\ cleared = [done EXCEPT !.nextRetryAt = "null", !.lastError = "null"]
    BY <1>1 DEF SendJob
  <2> HIDE DEF cleared, done
  <2>3. row1.sendJob = cleared /\ row1.status = row.status /\ row1.events = row.events
    BY <1>1 DEF Row
  <2>4. CreateEvent(row1, type, row1.status, receipt.result) = events
    BY <2>3 DEF CreateEvent
  <2>5. CompleteOperation(row1, receipt)
          = [row1 EXCEPT !.status = receipt.result, !.providerPaymentId = receipt.id,
                         !.sendJob = cleared, !.events = events]
    BY <1>1, <2>2, <2>3, <2>4 DEF CompleteOperation, Row
  <2>6. CompleteOperation(row1, receipt) = Ends(cleared)
    BY <1>1, <2>5 DEF Row
  <2> QED BY <2>1, <2>2, <2>6
<1> HIDE DEF done, events
<1> QED BY <1>1, <1>2, <1>3, <1>4 DEF Row, SendJob
=============================================================================
