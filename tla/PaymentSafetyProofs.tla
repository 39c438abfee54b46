------------------------ MODULE PaymentSafetyProofs ------------------------
(***************************************************************************)
(* What the rows, the receipts, the requests and the payments owe to each  *)
(* other, proved for PaymentService from the invariant of                  *)
(* PaymentServiceProofs (TypeOK /\ RowsOK) and its lemma RowSteps.         *)
(***************************************************************************)
EXTENDS PaymentServiceProofs

\* What no step takes back, for one row.
Advances(row, row1) ==
  /\ row.status \in Result => row1.status = row.status
  /\ row.providerPaymentId # None => row1.providerPaymentId = row.providerPaymentId
  /\ row.sendJob.state = "DONE" => row1.sendJob.state = "DONE"
  /\ row1.sendJob.attempt >= row.sendJob.attempt
  /\ Len(row1.events) >= Len(row.events)
  /\ \A i \in 1..Len(row.events) : row1.events[i] = row.events[i]

\* EventService.create_event only appends.
LEMMA CreateEventAppends ==
  ASSUME NEW row \in Row, NEW type, NEW from, NEW to,
         NEW history, history = CreateEvent(row, type, from, to)
  PROVE  /\ Len(history) = Len(row.events) + 1
         /\ \A i \in 1..Len(row.events) : history[i] = row.events[i]
<1> DEFINE e == [type |-> type, from |-> from, to |-> to]
           S == Event \cup {e}
<1>1. row.events \in Seq(S) /\ e \in S
  BY DEF Row
<1>2. history = Append(row.events, e)
  BY DEF CreateEvent
<1> HIDE DEF e, S
<1> QED BY <1>1, <1>2

\* No body takes anything back.
LEMMA RowAdvances ==
  ASSUME TypeOK, RowsOK, [Next]_vars, NEW o \in Operations
  PROVE  Advances(db[o], db'[o])
<1> DEFINE row == db[o]
           row1 == db'[o]
<1>1. RowStep(o) /\ RowOK(row)
  BY RowSteps DEF RowsOK
<1>2. /\ row \in Row /\ row.sendJob \in SendJob /\ row.sendJob.attempt \in Nat
      /\ row.events \in Seq(Event) /\ Len(row.events) \in Nat
  BY <1>1 DEF RowOK, Row, SendJob
<1>3. CASE row1 = row
  BY <1>2, <1>3 DEF Advances
<1>4. CASE row.status = "ABSENT" /\ row1 = Create(row)
  <2>1. /\ row1.events = CreateEvent(row, "CREATED", "null", "CREATED")
        /\ row1.sendJob = row.sendJob /\ row1.providerPaymentId = row.providerPaymentId
    BY <1>2, <1>4 DEF Create, Row
  <2> QED BY <1>2, <1>4, <2>1, CreateEventAppends DEF Advances, Result
<1>5. CASE row.status = "CREATED" /\ row1 = Submit(row)
  <2>1. row.sendJob.state = "NONE" /\ row.sendJob.attempt = 0
    BY <1>1, <1>5 DEF RowOK, JobAgreesWithStatus, RetryIsPlanned, NoSendJob
  <2>2. /\ row1.events = CreateEvent(row, "SUBMIT_REQUESTED", "CREATED", "PROCESSING")
        /\ row1.sendJob.attempt = 0 /\ row1.providerPaymentId = row.providerPaymentId
    BY <1>2, <1>5 DEF Submit, Row, NoSendJob
  <2> QED BY <1>2, <1>5, <2>1, <2>2, CreateEventAppends DEF Advances, Result
<1>6. ASSUME NEW r \in posted, AcceptsPaymentId(o, r.id),
             row.status = "PROCESSING", row1 = CompleteOperation(row, r)
      PROVE  Advances(row, row1)
  <2>1. PICK type : row1.events = CreateEvent(row, type, row.status, r.result)
    BY <1>2, <1>6 DEF CompleteOperation, Row
  <2>2. row1.sendJob.state = "DONE" /\ row1.sendJob.attempt = row.sendJob.attempt
        /\ row1.providerPaymentId = r.id
    BY <1>1, <1>2, <1>6 DEF CompleteOperation, Row, SendJob, RowOK, JobAgreesWithStatus
  <2>3. row.providerPaymentId # None => row.providerPaymentId = r.id
    BY <1>6 DEF AcceptsPaymentId
  <2> QED BY <1>2, <1>6, <2>1, <2>2, <2>3, CreateEventAppends DEF Advances, Result
<1>7. ASSUME NEW r \in posted, AcceptsPaymentId(o, r.id), row1 = HandleLateReceipt(row, r)
      PROVE  Advances(row, row1)
  <2>1. /\ row1.status = row.status /\ row1.sendJob = row.sendJob
        /\ row1.providerPaymentId = r.id
        /\ \/ row1.events = row.events
           \/ row1.events = CreateEvent(row, "RECEIPT_IGNORED", row.status, row.status)
    BY <1>2, <1>7 DEF HandleLateReceipt, Row
  <2>2. row.providerPaymentId # None => row.providerPaymentId = r.id
    BY <1>7 DEF AcceptsPaymentId
  <2> QED BY <1>2, <2>1, <2>2, CreateEventAppends DEF Advances
<1>8. CASE row1 = ClaimSendJob(row)
  BY <1>2, <1>8 DEF ClaimSendJob, Advances, Row, SendJob
<1>9. ASSUME NEW p \in payments, row1 = CompleteJob(row, p.id, AcceptsPaymentId(o, p.id))
      PROVE  Advances(row, row1)
  <2>1. row1 = row \/ (AcceptsPaymentId(o, p.id) /\ row1.providerPaymentId = p.id)
    <3>1. CASE ~ (AcceptsPaymentId(o, p.id) /\ row.sendJob.state \in {"RUNNING", "WAITING_RETRY"})
      BY <1>9, <3>1 DEF CompleteJob
    <3>2. CASE AcceptsPaymentId(o, p.id) /\ row.sendJob.state \in {"RUNNING", "WAITING_RETRY"}
      BY <1>2, <1>9, <3>2 DEF CompleteJob, Row
    <3> QED BY <3>1, <3>2
  <2>2. row.providerPaymentId # None => row1.providerPaymentId = row.providerPaymentId
    BY <2>1 DEF AcceptsPaymentId
  <2>3. /\ row1.status = row.status /\ row1.events = row.events
        /\ row1.sendJob.attempt = row.sendJob.attempt
        /\ row.sendJob.state = "DONE" => row1.sendJob.state = "DONE"
    BY <1>2, <1>9 DEF CompleteJob, Row, SendJob
  <2> QED BY <1>2, <2>2, <2>3 DEF Advances
<1>10. ASSUME NEW error, row1 = MoveToRetry(row, error) \/ row1 = RecordRetryFailure(row, error)
       PROVE  Advances(row, row1)
  <2>1. /\ row1.status = row.status /\ row1.events = row.events
        /\ row1.providerPaymentId = row.providerPaymentId
        /\ row.sendJob.state = "DONE" => row1.sendJob.state = "DONE"
    BY <1>2, <1>10 DEF MoveToRetry, RecordRetryFailure, Row
  <2>2. row1.sendJob.attempt \in {row.sendJob.attempt, row.sendJob.attempt + 1}
    <3> DEFINE scheduled == ScheduleRetry(row.sendJob)
    <3>1. scheduled \in SendJob /\ scheduled.attempt = row.sendJob.attempt + 1
      BY <1>2, ScheduleRetryPlans
    <3>2. row1 = row \/ row1.sendJob \in {scheduled, [scheduled EXCEPT !.state = "WAITING_RETRY"]}
      BY <1>2, <1>10 DEF MoveToRetry, RecordRetryFailure, Row
    <3> HIDE DEF scheduled
    <3> QED BY <3>1, <3>2 DEF SendJob
  <2> QED BY <1>2, <2>1, <2>2 DEF Advances
<1>11. CASE row1 = [row EXCEPT !.sendJob.nextRetryAt = "due"]
  BY <1>2, <1>11 DEF Advances, Row, SendJob
<1> HIDE DEF row, row1
<1> QED BY <1>1, <1>3, <1>4, <1>5, <1>6, <1>7, <1>8, <1>9, <1>10, <1>11 DEF RowStep, row, row1

\* A final status, a stored id, a DONE delivery, a counted attempt and a written
\* event survive every step of handlers, workers and faults.
THEOREM NothingIsUndoneAlways == Spec => NothingIsUndone
<1>1. TypeOK /\ RowsOK /\ [Next]_vars =>
        [\A o \in Operations : Advances(db[o], db'[o])]_vars
  BY RowAdvances
<1> QED BY <1>1, RowsCorrect, PTL DEF NothingIsUndone, Advances, Spec

\* What may still happen to a settled row: the event of an ignored receipt, or
\* the clock reaching a retry time that a receipt left planned.
OnlyLogs(row, row1) ==
  \/ row1 = row
  \/ row1 = [row EXCEPT !.events = CreateEvent(row, "RECEIPT_IGNORED", row.status, row.status)]
  \/ /\ row.sendJob.nextRetryAt = "later"
     /\ row1 = [row EXCEPT !.sendJob.nextRetryAt = "due"]

\* Once an operation is settled, no answer, claim, failure or retry that is still
\* under way writes its row: there is only the log of ignored receipts.
THEOREM SettledRowsOnlyLog ==
  Spec => [][\A o \in Operations :
               db[o].status \in Result => OnlyLogs(db[o], db'[o])]_vars
<1>1. ASSUME TypeOK, RowsOK, [Next]_vars, NEW o \in Operations, db[o].status \in Result
      PROVE  OnlyLogs(db[o], db'[o])
  <2> DEFINE row == db[o]
             row1 == db'[o]
  <2>1. /\ RowStep(o) /\ RowOK(row) /\ row \in Row
        /\ row.sendJob.state = "DONE" /\ row.providerPaymentId # None
        /\ row.status \notin {"ABSENT", "CREATED", "PROCESSING"}
    BY <1>1, RowSteps DEF RowsOK, RowOK, JobAgreesWithStatus, DeliveryLeavesId, Result
  <2>2. CASE row1 = row
    BY <2>2 DEF OnlyLogs
  <2>3. ASSUME NEW r \in posted, AcceptsPaymentId(o, r.id), row1 = HandleLateReceipt(row, r)
        PROVE  OnlyLogs(row, row1)
    <3>1. r \in Receipt /\ r.id = row.providerPaymentId
      BY <1>1, <2>1, <2>3 DEF TypeOK, AcceptsPaymentId
    <3> HIDE DEF row, row1
    <3>2. row.status \in Result
      BY <1>1 DEF row
    <3> QED BY <2>1, <2>3, <3>1, <3>2, LateReceiptOnlyAddsEvent DEF OnlyLogs
  <2>4. CASE \/ row1 = ClaimSendJob(row)
             \/ \E p : row1 = CompleteJob(row, p.id, AcceptsPaymentId(o, p.id))
             \/ \E error : row1 = MoveToRetry(row, error) \/ row1 = RecordRetryFailure(row, error)
    BY <2>1, <2>2, <2>4 DEF ClaimSendJob, CompleteJob, MoveToRetry, RecordRetryFailure
  <2>5. CASE /\ row.sendJob.nextRetryAt = "later"
             /\ row1 = [row EXCEPT !.sendJob.nextRetryAt = "due"]
    BY <2>5 DEF OnlyLogs
  <2> HIDE DEF row, row1
  <2> QED BY <2>1, <2>2, <2>3, <2>4, <2>5 DEF RowStep, row, row1
<1>2. TypeOK /\ RowsOK /\ [Next]_vars =>
        [\A o \in Operations : db[o].status \in Result => OnlyLogs(db[o], db'[o])]_vars
  BY <1>1
<1> QED BY <1>2, RowsCorrect, PTL DEF Spec

-----------------------------------------------------------------------------
(* What changes a row, and who provided for it *)

\* The receipts and the answers that a row accepts in a step.
ReceiptFor(o, r) == r \in posted /\ r.op = o /\ AcceptsPaymentId(o, r.id)
AnswerFor(o, p) ==
  /\ p \in payments
  /\ p.key = CreatePaymentRequest(o).key
  /\ AcceptsPaymentId(o, p.id)

\* A status changes by creation, by submission or by a receipt; an id comes
\* from a receipt or from an answer; a job that was claimed stays claimed.
Provenance(o, row, row1) ==
  /\ row1.status # row.status =>
       \/ row.status = "ABSENT" /\ row1.status = "CREATED"
          /\ row1.providerPaymentId = row.providerPaymentId
       \/ row.status = "CREATED" /\ row1.status = "PROCESSING"
          /\ row1.providerPaymentId = row.providerPaymentId
       \/ /\ row.status = "PROCESSING" /\ row1.status \in Result
          /\ \E r : /\ ReceiptFor(o, r)
                   /\ row1.status = r.result /\ row1.providerPaymentId = r.id
  /\ row1.providerPaymentId # row.providerPaymentId =>
       \/ \E r : ReceiptFor(o, r) /\ row1.providerPaymentId = r.id
       \/ \E p : AnswerFor(o, p) /\ row1.providerPaymentId = p.id
  /\ row.sendJob.state \notin {"NONE", "PENDING"} =>
       row1.sendJob.state \notin {"NONE", "PENDING"}

LEMMA RowProvenance ==
  ASSUME TypeOK, RowsOK, [Next]_vars, NEW o \in Operations
  PROVE  Provenance(o, db[o], db'[o])
<1> DEFINE row == db[o]
           row1 == db'[o]
<1>1. RowStep(o) /\ RowOK(row)
  BY RowSteps DEF RowsOK
<1>2. row \in Row /\ row.sendJob \in SendJob
  BY <1>1 DEF RowOK, Row
<1>3. CASE row1 = row
  BY <1>3 DEF Provenance
<1>4. CASE row.status = "ABSENT" /\ row1 = Create(row)
  BY <1>2, <1>4 DEF Create, Row, Provenance
<1>5. CASE row.status = "CREATED" /\ row1 = Submit(row)
  <2>1. row.sendJob.state = "NONE"
    BY <1>1, <1>5 DEF RowOK, JobAgreesWithStatus
  <2> QED BY <1>2, <1>5, <2>1 DEF Submit, Row, Provenance
<1>6. ASSUME NEW r \in posted, r.op = o, AcceptsPaymentId(o, r.id),
             row.status = "PROCESSING", row1 = CompleteOperation(row, r)
      PROVE  Provenance(o, row, row1)
  <2>1. ReceiptFor(o, r) /\ r.result \in Result
    BY <1>6 DEF ReceiptFor, TypeOK, Receipt
  <2>2. row1.status = r.result /\ row1.providerPaymentId = r.id
    BY <1>2, <1>6 DEF CompleteOperation, Row
  <2>3. row1.sendJob.state = "DONE"
    BY <1>1, <1>2, <1>6 DEF CompleteOperation, Row, SendJob, RowOK, JobAgreesWithStatus
  <2> HIDE DEF row, row1
  <2> QED BY <1>6, <2>1, <2>2, <2>3 DEF Provenance
<1>7. ASSUME NEW r \in posted, r.op = o, AcceptsPaymentId(o, r.id),
             row1 = HandleLateReceipt(row, r)
      PROVE  Provenance(o, row, row1)
  <2>1. ReceiptFor(o, r)
    BY <1>7 DEF ReceiptFor
  <2>2. row1.status = row.status /\ row1.providerPaymentId = r.id /\ row1.sendJob = row.sendJob
    BY <1>2, <1>7 DEF HandleLateReceipt, Row
  <2> HIDE DEF row, row1
  <2> QED BY <2>1, <2>2 DEF Provenance
<1>8. CASE row1 = ClaimSendJob(row)
  BY <1>2, <1>8 DEF ClaimSendJob, Provenance, Row, SendJob
<1>9. ASSUME NEW p \in payments, p.key = CreatePaymentRequest(o).key,
             row1 = CompleteJob(row, p.id, AcceptsPaymentId(o, p.id))
      PROVE  Provenance(o, row, row1)
  <2>1. CASE ~ (AcceptsPaymentId(o, p.id) /\ row.sendJob.state \in {"RUNNING", "WAITING_RETRY"})
    BY <1>3, <1>9, <2>1 DEF CompleteJob
  <2>2. CASE AcceptsPaymentId(o, p.id) /\ row.sendJob.state \in {"RUNNING", "WAITING_RETRY"}
    <3>1. AnswerFor(o, p)
      BY <1>9, <2>2 DEF AnswerFor
    <3>2. row1.status = row.status /\ row1.providerPaymentId = p.id /\ row1.sendJob.state = "DONE"
      <4> DEFINE job == [row.sendJob EXCEPT !.state = "DONE", !.nextRetryAt = "null",
                                            !.lastError = "null"]
      <4>1. job.state = "DONE"
        BY <1>2 DEF SendJob
      <4>2. row1 = [row EXCEPT !.providerPaymentId = p.id, !.sendJob = job]
        BY <1>2, <1>9, <2>2 DEF CompleteJob, Row
      <4> HIDE DEF job
      <4> QED BY <1>2, <4>1, <4>2 DEF Row
    <3> HIDE DEF row, row1
    <3> QED BY <3>1, <3>2 DEF Provenance
  <2> QED BY <2>1, <2>2
<1>10. ASSUME NEW error, row1 = MoveToRetry(row, error) \/ row1 = RecordRetryFailure(row, error)
       PROVE  Provenance(o, row, row1)
  <2> DEFINE scheduled == ScheduleRetry(row.sendJob)
  <2>1. scheduled \in SendJob /\ scheduled.state = row.sendJob.state
    BY <1>2, ScheduleRetryPlans
  <2>2. /\ row1.status = row.status /\ row1.providerPaymentId = row.providerPaymentId
        /\ row1.sendJob \in {row.sendJob, scheduled, [scheduled EXCEPT !.state = "WAITING_RETRY"]}
    BY <1>2, <1>10 DEF MoveToRetry, RecordRetryFailure, Row
  <2> HIDE DEF scheduled
  <2>3. row1.sendJob.state \in {row.sendJob.state, "WAITING_RETRY"}
    BY <2>1, <2>2 DEF SendJob
  <2> HIDE DEF row, row1
  <2> QED BY <2>2, <2>3 DEF Provenance
<1>11. CASE row1 = [row EXCEPT !.sendJob.nextRetryAt = "due"]
  BY <1>2, <1>11 DEF Provenance, Row, SendJob
<1> HIDE DEF row, row1
<1> QED BY <1>1, <1>3, <1>4, <1>5, <1>6, <1>7, <1>8, <1>9, <1>10, <1>11 DEF RowStep, row, row1

\* Messages are never unsent: sent, payments and posted only grow.
LEMMA MessagesGrow ==
  ASSUME [Next]_vars
  PROVE  /\ sent \subseteq sent'
         /\ payments \subseteq payments'
         /\ posted \subseteq posted'
<1>1. CASE UNCHANGED vars
  BY <1>1 DEF vars
<1>2. CASE Next
  BY <1>2 DEF Next, CreateOperation, SubmitOperation, TimePasses, ReceiveReceipt, FindJobs,
    FindFails, JobFails, ClaimJob, ProcessJob, PostPayment, CallAccepted, CallFails,
    AcceptPayment, PostReceipt, Crash, provider
<1> QED BY <1>1, <1>2

\* Whatever is final was said by a receipt posted for this operation, with the
\* id the row keeps.
THEOREM FinalOnlyByReceiptAlways == Spec => []FinalOnlyByReceipt
<1>1. Init => FinalOnlyByReceipt
  BY DEF Init, FinalOnlyByReceipt, NoRow, Result
<1>2. ASSUME TypeOK, RowsOK, FinalOnlyByReceipt, [Next]_vars
      PROVE  FinalOnlyByReceipt'
  <2>1. SUFFICES ASSUME NEW o \in Operations, db'[o].status \in Result
                 PROVE  \E r \in posted : /\ r.op = o
                                          /\ r.result = db'[o].status
                                          /\ r.id = db'[o].providerPaymentId
    BY <1>2, MessagesGrow DEF FinalOnlyByReceipt
  <2>2. CASE db[o].status = db'[o].status
    <3>1. db[o].providerPaymentId # None
      BY <1>2, <2>1, <2>2 DEF RowsOK, RowOK, JobAgreesWithStatus, DeliveryLeavesId
    <3>2. db'[o].providerPaymentId = db[o].providerPaymentId
      BY <1>2, <3>1, RowAdvances DEF Advances
    <3> QED BY <1>2, <2>1, <2>2, <3>2 DEF FinalOnlyByReceipt
  <2>3. CASE db[o].status # db'[o].status
    BY <1>2, <2>1, <2>3, RowProvenance DEF Provenance, ReceiptFor, Result
  <2> QED BY <2>2, <2>3
<1> QED BY <1>1, <1>2, RowsCorrect, PTL DEF Spec

-----------------------------------------------------------------------------
(* Requests and payments *)

\* The job was claimed, and nothing takes that back.
Claimed(o) == db[o].sendJob.state \notin {"NONE", "PENDING"}

\* The Idempotency-Key of a request and of its payment is the operation, a
\* payment answers a request, and what is called, asked for or paid was claimed before.
RequestsClaimed ==
  /\ \A w \in Workers : call[w] # None => Claimed(call[w])
  /\ \A q \in sent : q.key = q.op /\ Claimed(q.op)
  /\ \A p \in payments : /\ p.key = p.op /\ Claimed(p.op)
                         /\ [key |-> p.key, op |-> p.op] \in sent

LEMMA RequestsStayClaimed ==
  ASSUME TypeOK, RowsOK, RequestsClaimed, [Next]_vars
  PROVE  RequestsClaimed'
<1>1. \A o \in Operations : Claimed(o) => Claimed(o)'
  BY RowProvenance DEF Provenance, Claimed
<1>2. /\ \A w \in Workers : call[w] # None => call[w] \in Operations
      /\ \A q \in sent : q.op \in Operations
      /\ \A p \in payments : p.op \in Operations
  BY DEF TypeOK, Request, Payment
<1>3. ASSUME UNCHANGED <<sent, payments>>, \A w \in Workers : call'[w] \in {call[w], None}
      PROVE  RequestsClaimed'
  BY <1>1, <1>2, <1>3 DEF RequestsClaimed, Claimed
<1>4. ASSUME NEW w \in Workers, NEW o \in Operations, ProcessJob(w, o)
      PROVE  RequestsClaimed'
  <2>1. CASE db[o].sendJob.state = JobState(w)
    <3>1. Claimed(o)
      BY <1>4, <2>1 DEF ProcessJob, JobState, Claimed
    <3>2. UNCHANGED <<db, sent, payments>> /\ call' = [call EXCEPT ![w] = o]
      BY <1>4, <2>1 DEF ProcessJob, provider
    <3> QED BY <3>1, <3>2 DEF RequestsClaimed, Claimed, TypeOK
  <2>2. CASE db[o].sendJob.state # JobState(w)
    BY <1>3, <1>4, <2>2 DEF ProcessJob, provider
  <2> QED BY <2>1, <2>2
<1>5. ASSUME NEW w \in Workers, PostPayment(w)
      PROVE  RequestsClaimed'
  <2>1. PICK o : o = call[w]
    OBVIOUS
  <2>2. /\ UNCHANGED <<db, call, payments>> /\ Claimed(o)
        /\ sent' = sent \cup {[key |-> o, op |-> o]}
    BY <1>5, <2>1 DEF PostPayment, CreatePaymentRequest, worker, RequestsClaimed
  <2> QED BY <2>2 DEF RequestsClaimed, Claimed
<1>6. ASSUME NEW q \in sent, NEW id \in PaymentIds, AcceptPayment(q, id)
      PROVE  RequestsClaimed'
  <2>1. /\ UNCHANGED <<db, call, sent>>
        /\ payments' = payments \cup {[key |-> q.key, op |-> q.op, id |-> id]}
    BY <1>6 DEF AcceptPayment, worker
  <2>2. q = [key |-> q.key, op |-> q.op]
    BY DEF TypeOK, Request
  <2> QED BY <2>1, <2>2 DEF RequestsClaimed, Claimed
<1>7. CASE \E o \in Operations : CreateOperation(o) \/ SubmitOperation(o) \/ TimePasses(o)
  BY <1>3, <1>7 DEF CreateOperation, SubmitOperation, TimePasses, worker, provider
<1>8. CASE \E r \in posted : ReceiveReceipt(r)
  BY <1>3, <1>8 DEF ReceiveReceipt, worker, provider
<1>9. CASE \E w \in Workers : FindJobs(w) \/ FindFails(w) \/ JobFails(w)
  BY <1>3, <1>9 DEF FindJobs, FindFails, JobFails, provider, TypeOK
<1>10. CASE \E w \in Workers, o \in Operations : ClaimJob(w, o)
  BY <1>3, <1>10 DEF ClaimJob, provider
<1>11. CASE \E w \in Workers : \/ \E id \in PaymentIds : CallAccepted(w, id)
                               \/ \E error \in TextSizes : CallFails(w, error)
  BY <1>3, <1>11 DEF CallAccepted, CallFails, provider, TypeOK
<1>12. CASE (\E r \in Receipts : PostReceipt(r)) \/ Crash \/ UNCHANGED vars
  BY <1>3, <1>12 DEF PostReceipt, Crash, worker, provider, vars
<1> QED BY <1>4, <1>5, <1>6, <1>7, <1>8, <1>9, <1>10, <1>11, <1>12 DEF Next

LEMMA RequestsClaimedAlways == Spec => []RequestsClaimed
<1>1. Init => RequestsClaimed
  BY DEF Init, RequestsClaimed
<1> QED BY <1>1, RequestsStayClaimed, RowsCorrect, PTL DEF Spec

\* A request leaves only after the submission and the claim were committed.
THEOREM IntentBeforeSendAlways == Spec => []IntentBeforeSend
<1>1. RequestsClaimed => IntentBeforeSend
  BY DEF RequestsClaimed, Claimed, IntentBeforeSend
<1> QED BY <1>1, RequestsClaimedAlways, PTL

-----------------------------------------------------------------------------
(* A consistent provider *)

\* The provider keeps one payment per key and per id, and its receipts are true.
ProviderInv ==
  /\ \A p, q \in payments : p.key = q.key \/ p.id = q.id => p = q
  /\ \A r \in posted : \E p \in payments : p.op = r.op /\ p.id = r.id

LEMMA ProviderStaysConsistent ==
  ASSUME ConsistentProvider, TypeOK, ProviderInv, [Next]_vars
  PROVE  ProviderInv'
<1>1. CASE payments' = payments /\ posted' = posted
  BY <1>1 DEF ProviderInv
<1>2. ASSUME NEW q \in sent, NEW id \in PaymentIds, AcceptPayment(q, id)
      PROVE  ProviderInv'
  <2> DEFINE new == [key |-> q.key, op |-> q.op, id |-> id]
  <2>1. /\ payments' = payments \cup {new} /\ posted' = posted
        /\ \A p \in payments : p.key # new.key /\ p.id # new.id
    BY <1>2 DEF AcceptPayment
  <2> HIDE DEF new
  <2> QED BY <2>1 DEF ProviderInv
<1>3. ASSUME NEW r \in Receipts, PostReceipt(r)
      PROVE  ProviderInv'
  BY <1>3 DEF ProviderInv, PostReceipt
<1>4. CASE \/ \E o \in Operations : CreateOperation(o) \/ SubmitOperation(o) \/ TimePasses(o)
           \/ \E r \in posted : ReceiveReceipt(r)
           \/ \E w \in Workers : FindJobs(w) \/ FindFails(w) \/ JobFails(w) \/ PostPayment(w)
  BY <1>1, <1>4 DEF CreateOperation, SubmitOperation, TimePasses, ReceiveReceipt, FindJobs,
    FindFails, JobFails, PostPayment, provider
<1>5. CASE \/ \E w \in Workers, o \in Operations : ClaimJob(w, o) \/ ProcessJob(w, o)
           \/ \E w \in Workers, id \in PaymentIds : CallAccepted(w, id)
           \/ \E w \in Workers, error \in TextSizes : CallFails(w, error)
           \/ Crash \/ UNCHANGED vars
  BY <1>1, <1>5 DEF ClaimJob, ProcessJob, CallAccepted, CallFails, Crash, provider, vars
<1> QED BY <1>2, <1>3, <1>4, <1>5 DEF Next

\* Every id a row keeps is the id of the operation's own payment.
LEMMA StoredIdStays ==
  ASSUME TypeOK, RowsOK, RequestsClaimed, ProviderInv, StoredIdIsProviders, [Next]_vars
  PROVE  StoredIdIsProviders'
<1>1. SUFFICES ASSUME NEW o \in Operations, db'[o].providerPaymentId # None
               PROVE  \E p \in payments : p.op = o /\ p.id = db'[o].providerPaymentId
  BY MessagesGrow DEF StoredIdIsProviders
<1>2. CASE db'[o].providerPaymentId = db[o].providerPaymentId
  BY <1>1, <1>2 DEF StoredIdIsProviders
<1>3. CASE \E r : ReceiptFor(o, r) /\ db'[o].providerPaymentId = r.id
  BY <1>3 DEF ReceiptFor, ProviderInv
<1>4. CASE \E p : AnswerFor(o, p) /\ db'[o].providerPaymentId = p.id
  BY <1>4 DEF AnswerFor, CreatePaymentRequest, RequestsClaimed
<1> QED BY <1>2, <1>3, <1>4, RowProvenance DEF Provenance

LEMMA ConsistentAlways ==
  ASSUME ConsistentProvider
  PROVE  Spec => [](ProviderInv /\ StoredIdIsProviders)
<1>1. Init => ProviderInv /\ StoredIdIsProviders
  BY DEF Init, ProviderInv, StoredIdIsProviders, NoRow
<1>2. TypeOK /\ ProviderInv /\ [Next]_vars => ProviderInv'
  BY ProviderStaysConsistent
<1> QED BY <1>1, <1>2, StoredIdStays, RequestsClaimedAlways, RowsCorrect, PTL DEF Spec

\* With a provider that honours the Idempotency-Key, losses, crashes and
\* retries never lead to a second payment of an operation.
THEOREM OnePaymentPerOperationAlways ==
  ASSUME ConsistentProvider
  PROVE  Spec => []OnePaymentPerOperation
<1>1. RequestsClaimed => \A p \in payments : p.key = p.op
  BY DEF RequestsClaimed
<1>2. ProviderInv /\ RequestsClaimed => OnePaymentPerOperation
  BY <1>1 DEF ProviderInv, OnePaymentPerOperation
<1> QED BY <1>2, ConsistentAlways, RequestsClaimedAlways, PTL

\* The id a row keeps is the id of that operation's own payment.
THEOREM StoredIdIsProvidersAlways ==
  ASSUME ConsistentProvider
  PROVE  Spec => []StoredIdIsProviders
BY ConsistentAlways, PTL

\* A receipt for an operation is posted only after its submission.
LEMMA ReceiptIsForSubmitted ==
  ASSUME TypeOK, RowsOK, RequestsClaimed, ProviderInv, NEW r \in posted
  PROVE  db[r.op].status \notin {"ABSENT", "CREATED"}
<1>1. r.op \in Operations
  BY DEF TypeOK, Receipt
<1>2. db[r.op].sendJob.state # "NONE"
  BY DEF RequestsClaimed, Claimed, ProviderInv
<1> QED BY <1>1, <1>2 DEF RowsOK, RowOK, JobAgreesWithStatus

\* The one event a step may write is in the table.
LEMMA NewEventInTable ==
  ASSUME TypeOK, RowsOK, RequestsClaimed, ProviderInv, [Next]_vars, NEW o \in Operations
  PROVE  \/ db'[o].events = db[o].events
         \/ \E e \in Event : InTable(e) /\ db'[o].events = Append(db[o].events, e)
<1> DEFINE row == db[o]
           row1 == db'[o]
           Goal == \/ row1.events = row.events
                   \/ \E e \in Event : InTable(e) /\ row1.events = Append(row.events, e)
<1>1. RowStep(o) /\ RowOK(row) /\ row \in Row
  BY RowSteps DEF RowsOK, RowOK
<1>2. CASE row.status = "ABSENT" /\ row1 = Create(row)
  <2> DEFINE e == [type |-> "CREATED", from |-> "null", to |-> "CREATED"]
  <2>1. row1.events = Append(row.events, e)
    BY <1>1, <1>2 DEF Create, CreateEvent, Row
  <2>2. InTable(e) /\ e \in Event
    BY DEF InTable, Event, EventType, OperationStatus
  <2> QED BY <2>1, <2>2
<1>3. CASE row.status = "CREATED" /\ row1 = Submit(row)
  <2> DEFINE e == [type |-> "SUBMIT_REQUESTED", from |-> "CREATED", to |-> "PROCESSING"]
  <2>1. row1.events = Append(row.events, e)
    BY <1>1, <1>3 DEF Submit, CreateEvent, Row
  <2>2. InTable(e) /\ e \in Event
    BY DEF InTable, Event, EventType, OperationStatus
  <2> QED BY <2>1, <2>2
<1>4. ASSUME NEW r \in posted, row.status = "PROCESSING", row1 = CompleteOperation(row, r)
      PROVE  Goal
  <2> DEFINE type == IF r.result = "COMPLETED" THEN "RECEIPT_COMPLETED" ELSE "RECEIPT_REJECTED"
             e == [type |-> type, from |-> row.status, to |-> r.result]
  <2>1. row1.events = Append(row.events, e)
    BY <1>1, <1>4 DEF CompleteOperation, CreateEvent, Row
  <2>2. r.result \in {"COMPLETED", "REJECTED"}
    BY DEF TypeOK, Receipt, Result
  <2>3. InTable(e) /\ e \in Event
    BY <1>4, <2>2 DEF InTable, Event, EventType, OperationStatus, Result
  <2> QED BY <2>1, <2>3
<1>5. ASSUME NEW r \in posted, r.op = o, row.status \notin {"ABSENT", "PROCESSING"},
             row1 = HandleLateReceipt(row, r)
      PROVE  Goal
  <2> DEFINE e == [type |-> "RECEIPT_IGNORED", from |-> row.status, to |-> row.status]
  <2>1. row1.events = row.events \/ row1.events = Append(row.events, e)
    BY <1>1, <1>5 DEF HandleLateReceipt, CreateEvent, Row
  <2>2. row.status \in Result
    BY <1>1, <1>5, ReceiptIsForSubmitted DEF Row, OperationStatus
  <2>3. InTable(e) /\ e \in Event
    BY <2>2 DEF InTable, Event, EventType, OperationStatus
  <2> QED BY <2>1, <2>3
<1>6. CASE \/ row1 = row
           \/ row1 = ClaimSendJob(row)
           \/ \E p : row1 = CompleteJob(row, p.id, AcceptsPaymentId(o, p.id))
           \/ \E error : row1 = MoveToRetry(row, error) \/ row1 = RecordRetryFailure(row, error)
           \/ row1 = [row EXCEPT !.sendJob.nextRetryAt = "due"]
  BY <1>1, <1>6 DEF ClaimSendJob, CompleteJob, MoveToRetry, RecordRetryFailure, Row
<1> HIDE DEF row, row1
<1> QED BY <1>1, <1>2, <1>3, <1>4, <1>5, <1>6 DEF RowStep, row, row1

\* Every event of every operation is one of the table in enums.py.
THEOREM HistoryFollowsTableAlways ==
  ASSUME ConsistentProvider
  PROVE  Spec => []HistoryFollowsTable
<1>1. Init => HistoryFollowsTable
  BY DEF Init, HistoryFollowsTable, NoRow
<1>2. ASSUME TypeOK, RowsOK, RequestsClaimed, ProviderInv, HistoryFollowsTable, [Next]_vars
      PROVE  HistoryFollowsTable'
  <2>1. SUFFICES ASSUME NEW o \in Operations, NEW i \in 1..Len(db'[o].events)
                 PROVE  InTable(db'[o].events[i])
    BY DEF HistoryFollowsTable, InTable
  <2>2. db[o].events \in Seq(Event)
    BY <1>2 DEF RowsOK, RowOK, Row
  <2>3. CASE db'[o].events = db[o].events
    BY <1>2, <2>3 DEF HistoryFollowsTable
  <2>4. ASSUME NEW e \in Event, InTable(e), db'[o].events = Append(db[o].events, e)
        PROVE  InTable(db'[o].events[i])
    BY <1>2, <2>2, <2>4 DEF HistoryFollowsTable
  <2> QED BY <1>2, <2>3, <2>4, NewEventInTable
<1> QED BY <1>1, <1>2, ConsistentAlways, RequestsClaimedAlways, RowsCorrect, PTL DEF Spec

-----------------------------------------------------------------------------
(* What the workers owe to each other.  Both theorems assume what            *)
(* app/main.py builds: one RunningWorker and one RetryWorker.  With two of   *)
(* a kind both fail, for a worker holds no lock while it calls.              *)

OneRunningWorker == \A v, w \in RunningWorkers : v = w
OneRetryWorker == \A v, w \in RetryWorkers : v = w

\* A job that is being sent is in the state its worker looks for, or was
\* completed by a receipt meanwhile.
CallsMatchJobs ==
  \A w \in Workers : call[w] # None =>
    /\ w \notin PendingWorkers
    /\ db[call[w]].sendJob.state \in {JobState(w), "DONE"}

\* A batch of RetryWorker holds jobs that were due and stay due until their turn.
RetryBatchIsDue ==
  \A w \in RetryWorkers :
    /\ call[w] \notin batch[w]
    /\ \A o \in batch[w] :
         \/ db[o].sendJob.state = "DONE"
         \/ db[o].sendJob.state = "WAITING_RETRY" /\ db[o].sendJob.nextRetryAt = "due"

\* Steps other than the end of a call move no job but from NONE and PENDING,
\* and to DONE; a retry time is only ever reached.
LEMMA JobKept ==
  ASSUME TypeOK, RowsOK, [Next]_vars, NEW o \in Operations,
         ~ \E w \in Workers, error \in TextSizes : call[w] = o /\ CallFails(w, error),
         db[o].sendJob.state \notin {"NONE", "PENDING"}
  PROVE  \/ db'[o].sendJob.state = "DONE"
         \/ /\ db'[o].sendJob.state = db[o].sendJob.state
            /\ db[o].sendJob.nextRetryAt = "due" => db'[o].sendJob.nextRetryAt = "due"
<1> DEFINE Kept(row, row1) ==
             \/ row1.sendJob.state = "DONE"
             \/ /\ row1.sendJob.state = row.sendJob.state
                /\ row.sendJob.nextRetryAt = "due" => row1.sendJob.nextRetryAt = "due"
<1>1. db \in [Operations -> Row] /\ RowOK(db[o]) /\ db[o] \in Row /\ db[o].sendJob \in SendJob
  BY DEF TypeOK, RowsOK, RowOK, Row
<1>2. CASE db'[o] = db[o]
  BY <1>2
<1>3. ASSUME NEW x \in Operations, CreateOperation(x)
      PROVE  Kept(db[o], db'[o])
  <2>1. CASE x = o
    BY <1>1, <1>3, <2>1 DEF CreateOperation, Create, Row
  <2>2. CASE x # o
    BY <1>1, <1>3, <2>2 DEF CreateOperation
  <2> QED BY <2>1, <2>2
<1>4. ASSUME NEW x \in Operations, SubmitOperation(x)
      PROVE  Kept(db[o], db'[o])
  <2>1. x # o
    BY <1>1, <1>4 DEF SubmitOperation, RowOK, JobAgreesWithStatus
  <2> QED BY <1>1, <1>4, <2>1 DEF SubmitOperation
<1>5. ASSUME NEW x \in Operations, TimePasses(x)
      PROVE  Kept(db[o], db'[o])
  <2>1. CASE x = o
    BY <1>1, <1>5, <2>1 DEF TimePasses, Row, SendJob
  <2>2. CASE x # o
    BY <1>1, <1>5, <2>2 DEF TimePasses
  <2> QED BY <2>1, <2>2
<1>6. ASSUME NEW r \in posted, ReceiveReceipt(r)
      PROVE  Kept(db[o], db'[o])
  <2>1. CASE r.op # o
    BY <1>1, <1>6, <2>1 DEF ReceiveReceipt
  <2>2. CASE r.op = o /\ db'[o] = CompleteOperation(db[o], r)
    BY <1>1, <2>2 DEF CompleteOperation, Row, SendJob
  <2>3. CASE r.op = o /\ db'[o] = HandleLateReceipt(db[o], r)
    BY <1>1, <2>3 DEF HandleLateReceipt, Row
  <2> QED BY <1>1, <1>6, <2>1, <2>2, <2>3 DEF ReceiveReceipt
<1>7. ASSUME NEW w \in Workers, NEW x \in Operations, ClaimJob(w, x)
      PROVE  Kept(db[o], db'[o])
  BY <1>1, <1>7 DEF ClaimJob, ClaimSendJob
<1>8. ASSUME NEW w \in Workers, NEW id \in PaymentIds, CallAccepted(w, id)
      PROVE  Kept(db[o], db'[o])
  <2>1. CASE call[w] # o
    BY <1>1, <1>8, <2>1 DEF CallAccepted
  <2>2. CASE call[w] = o
    <3>1. db'[o] = CompleteJob(db[o], id, AcceptsPaymentId(o, id))
      BY <1>1, <1>8, <2>2 DEF CallAccepted
    <3>2. CASE db'[o] = db[o]
      BY <3>2
    <3>3. CASE db'[o] # db[o]
      <4> DEFINE job == [db[o].sendJob EXCEPT !.state = "DONE", !.nextRetryAt = "null",
                                              !.lastError = "null"]
      <4>1. job.state = "DONE"
        BY <1>1 DEF SendJob
      <4>2. db'[o] = [db[o] EXCEPT !.providerPaymentId = id, !.sendJob = job]
        BY <1>1, <3>1, <3>3 DEF CompleteJob, Row
      <4> HIDE DEF job
      <4>3. db'[o].sendJob = job
        BY <1>1, <4>2 DEF Row
      <4> QED BY <4>1, <4>3
    <3> QED BY <3>2, <3>3
  <2> QED BY <2>1, <2>2
<1>9. ASSUME NEW w \in Workers, NEW error \in TextSizes, CallFails(w, error)
      PROVE  db'[o] = db[o]
  <2>1. call[w] # o
    BY <1>9
  <2> QED BY <1>1, <1>9, <2>1 DEF CallFails
<1>10. CASE \/ \E w \in Workers : FindJobs(w) \/ FindFails(w) \/ JobFails(w) \/ PostPayment(w)
            \/ \E w \in Workers, x \in Operations : ProcessJob(w, x)
            \/ \E q \in sent, id \in PaymentIds : AcceptPayment(q, id)
            \/ \E r \in Receipts : PostReceipt(r)
            \/ Crash \/ UNCHANGED vars
  BY <1>2, <1>10 DEF FindJobs, FindFails, JobFails, PostPayment, ProcessJob, AcceptPayment,
    PostReceipt, Crash, vars
<1> QED BY <1>2, <1>3, <1>4, <1>5, <1>6, <1>7, <1>8, <1>9, <1>10 DEF Next

-----------------------------------------------------------------------------
(* One call per operation *)

LEMMA CallsStayExclusive ==
  ASSUME OneRunningWorker, OneRetryWorker,
         TypeOK, RowsOK, CallsMatchJobs, OneCallPerOperation, [Next]_vars
  PROVE  CallsMatchJobs' /\ OneCallPerOperation'
<1>1. /\ \A w \in Workers : JobState(w) \notin {"NONE", "DONE"}
      /\ \A w \in Workers \ PendingWorkers : JobState(w) # "PENDING"
      /\ \A v, w \in Workers \ PendingWorkers : JobState(v) = JobState(w) => v = w
  BY WorkerKindsAreDisjoint DEF JobState, Workers, OneRunningWorker, OneRetryWorker
\* A call that goes on still matches its job.
<1>2. ASSUME NEW v \in Workers, call[v] # None,
             ~ \E w \in Workers, error \in TextSizes : call[w] = call[v] /\ CallFails(w, error)
      PROVE  /\ v \notin PendingWorkers
             /\ db'[call[v]].sendJob.state \in {JobState(v), "DONE"}
  <2>1. call[v] \in Operations
    BY <1>2 DEF TypeOK
  <2>2. v \notin PendingWorkers /\ db[call[v]].sendJob.state \in {JobState(v), "DONE"}
    BY <1>2 DEF CallsMatchJobs
  <2>3. db[call[v]].sendJob.state \notin {"NONE", "PENDING"}
    BY <1>1, <2>2
  <2> QED BY <1>2, <2>1, <2>2, <2>3, JobKept
<1>3. ASSUME \A w \in Workers : call'[w] \in {call[w], None},
             ~ \E w \in Workers, error \in TextSizes : call[w] # None /\ CallFails(w, error)
      PROVE  CallsMatchJobs' /\ OneCallPerOperation'
  <2>1. OneCallPerOperation'
    BY <1>3 DEF OneCallPerOperation
  <2>2. CallsMatchJobs'
    BY <1>2, <1>3 DEF CallsMatchJobs
  <2> QED BY <2>1, <2>2
<1>4. ASSUME NEW w \in Workers, NEW error \in TextSizes, CallFails(w, error)
      PROVE  CallsMatchJobs' /\ OneCallPerOperation'
  <2>1. call' = [call EXCEPT ![w] = None] /\ call[w] # None
    BY <1>4 DEF CallFails
  <2>2. OneCallPerOperation'
    BY <2>1 DEF OneCallPerOperation, TypeOK
  <2>3. ASSUME NEW v \in Workers, call'[v] # None
        PROVE  /\ v \notin PendingWorkers
               /\ db'[call'[v]].sendJob.state \in {JobState(v), "DONE"}
    <3>1. v # w /\ call'[v] = call[v] /\ call[v] # call[w]
      BY <2>1, <2>3 DEF OneCallPerOperation, TypeOK
    <3>2. db'[call[v]] = db[call[v]]
      BY <1>4, <2>3, <3>1 DEF CallFails, TypeOK
    <3> QED BY <2>3, <3>1, <3>2 DEF CallsMatchJobs
  <2> QED BY <2>2, <2>3 DEF CallsMatchJobs
<1>5. ASSUME NEW w \in Workers, NEW o \in Operations, ProcessJob(w, o)
      PROVE  CallsMatchJobs' /\ OneCallPerOperation'
  <2>1. db' = db /\ w \notin PendingWorkers
    BY <1>5 DEF ProcessJob
  <2>2. CASE db[o].sendJob.state = JobState(w)
    <3>1. call' = [call EXCEPT ![w] = o]
      BY <1>5, <2>2 DEF ProcessJob
    <3>2. \A v \in Workers : call[v] = o /\ call[v] # None => v = w
      BY <1>1, <2>1, <2>2 DEF CallsMatchJobs
    <3>3. OneCallPerOperation'
      BY <3>1, <3>2 DEF OneCallPerOperation, TypeOK
    <3>4. CallsMatchJobs'
      BY <2>1, <2>2, <3>1 DEF CallsMatchJobs, TypeOK
    <3> QED BY <3>3, <3>4
  <2>3. CASE db[o].sendJob.state # JobState(w)
    BY <1>5, <2>1, <2>3 DEF ProcessJob, CallsMatchJobs, OneCallPerOperation
  <2> QED BY <2>2, <2>3
<1>6. CASE \A w \in Workers : call'[w] \in {call[w], None}
  <2>1. CASE \E w \in Workers, error \in TextSizes : CallFails(w, error)
    BY <1>4, <2>1
  <2>2. CASE ~ \E w \in Workers, error \in TextSizes : CallFails(w, error)
    BY <1>3, <1>6, <2>2
  <2> QED BY <2>1, <2>2
<1>7. ASSUME NEW w \in Workers, NEW id \in PaymentIds, CallAccepted(w, id)
      PROVE  \A v \in Workers : call'[v] \in {call[v], None}
  BY <1>7 DEF CallAccepted, TypeOK
<1>8. ASSUME NEW w \in Workers, FindJobs(w) \/ FindFails(w) \/ JobFails(w)
      PROVE  \A v \in Workers : call'[v] \in {call[v], None}
  BY <1>8 DEF FindJobs, FindFails, JobFails, TypeOK
<1>9. CASE \/ \E o \in Operations : CreateOperation(o) \/ SubmitOperation(o) \/ TimePasses(o)
           \/ \E r \in posted : ReceiveReceipt(r)
           \/ \E w \in Workers, o \in Operations : ClaimJob(w, o)
           \/ \E w \in Workers : PostPayment(w)
           \/ \E q \in sent, id \in PaymentIds : AcceptPayment(q, id)
           \/ \E r \in Receipts : PostReceipt(r)
           \/ Crash \/ UNCHANGED vars
  <2>1. \A w \in Workers : call'[w] \in {call[w], None}
    BY <1>9 DEF CreateOperation, SubmitOperation, TimePasses, ReceiveReceipt, ClaimJob,
      PostPayment, AcceptPayment, PostReceipt, Crash, worker, vars
  <2> QED BY <1>6, <2>1
<1> QED BY <1>4, <1>5, <1>6, <1>7, <1>8, <1>9 DEF Next

\* No two workers ever call the provider for the same operation at once.
THEOREM OneCallPerOperationAlways ==
  ASSUME OneRunningWorker, OneRetryWorker
  PROVE  Spec => []OneCallPerOperation
<1>1. Init => CallsMatchJobs /\ OneCallPerOperation
  BY DEF Init, CallsMatchJobs, OneCallPerOperation
<1>2. TypeOK /\ RowsOK /\ CallsMatchJobs /\ OneCallPerOperation /\ [Next]_vars
        => CallsMatchJobs' /\ OneCallPerOperation'
  BY CallsStayExclusive
<1> QED BY <1>1, <1>2, RowsCorrect, PTL DEF Spec

-----------------------------------------------------------------------------
(* Retries only when due *)

LEMMA RetryBatchStaysDue ==
  ASSUME OneRetryWorker, TypeOK, RowsOK, CallsMatchJobs, RetryBatchIsDue, [Next]_vars
  PROVE  RetryBatchIsDue'
<1>1. SUFFICES ASSUME NEW w \in RetryWorkers
               PROVE  /\ call'[w] \notin batch'[w]
                      /\ \A o \in batch'[w] :
                           \/ db'[o].sendJob.state = "DONE"
                           \/ db'[o].sendJob.state = "WAITING_RETRY" /\ db'[o].sendJob.nextRetryAt = "due"
  BY DEF RetryBatchIsDue
<1>2. /\ w \in Workers /\ JobState(w) = "WAITING_RETRY" /\ None \notin batch[w]
      /\ batch[w] \subseteq Operations
  BY WorkerKindsAreDisjoint, NoneIsNoId DEF JobState, Workers, TypeOK
\* A job of the batch is left alone, or it is completed.
<1>3. ASSUME NEW o \in batch[w]
      PROVE  \/ db'[o].sendJob.state = "DONE"
             \/ db'[o].sendJob.state = "WAITING_RETRY" /\ db'[o].sendJob.nextRetryAt = "due"
  <2>1. o \in Operations /\ db[o].sendJob.state \in {"DONE", "WAITING_RETRY"}
    BY <1>2 DEF RetryBatchIsDue
  <2>2. CASE ~ \E v \in Workers, error \in TextSizes : call[v] = o /\ CallFails(v, error)
    BY <2>1, <2>2, JobKept DEF RetryBatchIsDue
  <2>3. ASSUME NEW v \in Workers, NEW error \in TextSizes, call[v] = o, CallFails(v, error)
        PROVE  db'[o] = db[o]
    <3>1. v \in RunningWorkers
      <4>1. v \notin PendingWorkers
        BY <2>3 DEF CallsMatchJobs, CallFails
      <4>2. v \notin RetryWorkers
        BY <2>3 DEF RetryBatchIsDue, OneRetryWorker
      <4> QED BY <4>1, <4>2 DEF Workers
    <3>2. db'[o] = MoveToRetry(db[o], error)
      BY <2>1, <2>3, <3>1 DEF CallFails, TypeOK
    <3> QED BY <2>1, <3>2 DEF MoveToRetry
  <2> QED BY <2>2, <2>3 DEF RetryBatchIsDue
<1>4. CASE batch'[w] \subseteq batch[w] /\ call'[w] \notin batch'[w]
  BY <1>3, <1>4
<1>5. CASE FindJobs(w)
  <2>1. db' = db /\ call'[w] = None /\ batch'[w] = FoundJobs(w)
    BY <1>2, <1>5 DEF FindJobs, Waiting, TypeOK
  <2> QED BY <1>2, <2>1, NoneIsNoId DEF FoundJobs
<1>6. ASSUME NEW o \in Operations, ProcessJob(w, o)
      PROVE  batch'[w] \subseteq batch[w] /\ call'[w] \notin batch'[w]
  BY <1>2, <1>6 DEF ProcessJob, Waiting, TypeOK
<1>7. CASE UNCHANGED <<batch, call>>
  BY <1>4, <1>7 DEF RetryBatchIsDue
<1>8. ASSUME NEW v \in Workers, v # w, FindJobs(v) \/ \E o \in Operations : ProcessJob(v, o)
      PROVE  batch'[w] = batch[w] /\ call'[w] = call[w]
  BY <1>2, <1>8 DEF FindJobs, ProcessJob, TypeOK
<1>9. ASSUME NEW v \in Workers, JobFails(v) \/ \E o \in Operations : ClaimJob(v, o)
      PROVE  batch'[w] \subseteq batch[w] /\ call'[w] \in {call[w], None}
  <2>1. CASE JobFails(v)
    BY <1>2, <2>1 DEF JobFails, TypeOK
  <2>2. CASE \E o \in Operations : ClaimJob(v, o)
    BY <1>2, <2>2 DEF ClaimJob, TypeOK
  <2> QED BY <1>9, <2>1, <2>2
<1>10. ASSUME NEW v \in Workers,
              \/ \E id \in PaymentIds : CallAccepted(v, id)
              \/ \E error \in TextSizes : CallFails(v, error)
       PROVE  batch' = batch /\ call'[w] \in {call[w], None}
  BY <1>2, <1>10 DEF CallAccepted, CallFails, TypeOK
<1>11. CASE Crash
  BY <1>2, <1>11 DEF Crash
<1>12. CASE \/ \E o \in Operations : CreateOperation(o) \/ SubmitOperation(o) \/ TimePasses(o)
            \/ \E r \in posted : ReceiveReceipt(r)
            \/ \E v \in Workers : FindFails(v) \/ PostPayment(v)
            \/ \E q \in sent, id \in PaymentIds : AcceptPayment(q, id)
            \/ \E r \in Receipts : PostReceipt(r)
            \/ UNCHANGED vars
  BY <1>7, <1>12 DEF CreateOperation, SubmitOperation, TimePasses, ReceiveReceipt, FindFails,
    PostPayment, AcceptPayment, PostReceipt, worker, vars
<1>13. CASE batch'[w] \subseteq batch[w] /\ call'[w] \in {call[w], None}
  BY <1>2, <1>4, <1>13 DEF RetryBatchIsDue
<1> QED BY <1>4, <1>5, <1>6, <1>8, <1>9, <1>10, <1>11, <1>12, <1>13 DEF Next

\* Only ProcessJob begins a call: the job was in the batch and in the state that
\* the worker looks for.
LEMMA NewCallIsProcessed ==
  ASSUME TypeOK, [Next]_vars, NEW w \in Workers, call'[w] # call[w], call'[w] # None
  PROVE  /\ call'[w] \in batch[w]
         /\ w \notin PendingWorkers
         /\ db[call'[w]].sendJob.state = JobState(w)
<1>1. PICK o \in Operations : ProcessJob(w, o)
  <2>1. ASSUME NEW v \in Workers, NEW x \in Operations, ProcessJob(v, x), v # w
        PROVE  FALSE
    BY <2>1 DEF ProcessJob, TypeOK
  <2>2. ASSUME NEW v \in Workers, FindJobs(v) \/ FindFails(v) \/ JobFails(v)
        PROVE  FALSE
    BY <2>2 DEF FindJobs, FindFails, JobFails, TypeOK
  <2>3. ASSUME NEW v \in Workers,
               \/ \E id \in PaymentIds : CallAccepted(v, id)
               \/ \E error \in TextSizes : CallFails(v, error)
        PROVE  FALSE
    BY <2>3 DEF CallAccepted, CallFails, TypeOK
  <2>4. ~ \/ \E x \in Operations : CreateOperation(x) \/ SubmitOperation(x) \/ TimePasses(x)
          \/ \E r \in posted : ReceiveReceipt(r)
          \/ \E v \in Workers, x \in Operations : ClaimJob(v, x)
          \/ \E v \in Workers : PostPayment(v)
          \/ \E q \in sent, id \in PaymentIds : AcceptPayment(q, id)
          \/ \E r \in Receipts : PostReceipt(r)
          \/ Crash
          \/ UNCHANGED vars
    BY DEF CreateOperation, SubmitOperation, TimePasses, ReceiveReceipt, ClaimJob,
      PostPayment, AcceptPayment, PostReceipt, Crash, worker, vars
  <2> QED BY <2>1, <2>2, <2>3, <2>4 DEF Next
<1> QED BY <1>1 DEF ProcessJob, TypeOK

\* RetryWorker takes a job up for a call only when next_retry_at was reached.
THEOREM RetryOnlyWhenDueAlways ==
  ASSUME OneRunningWorker, OneRetryWorker
  PROVE  Spec => RetryOnlyWhenDue
<1>1. Init => CallsMatchJobs /\ OneCallPerOperation /\ RetryBatchIsDue
  BY NoneIsNoId DEF Init, CallsMatchJobs, OneCallPerOperation, RetryBatchIsDue, Workers
<1>2. TypeOK /\ RowsOK /\ CallsMatchJobs /\ OneCallPerOperation /\ RetryBatchIsDue /\ [Next]_vars
        => CallsMatchJobs' /\ OneCallPerOperation' /\ RetryBatchIsDue'
  BY CallsStayExclusive, RetryBatchStaysDue
<1>3. TypeOK /\ RetryBatchIsDue /\ [Next]_vars =>
        [\A w \in RetryWorkers :
           call'[w] # call[w] /\ call'[w] # None =>
             db[call'[w]].sendJob.nextRetryAt = "due"]_vars
  <2>1. SUFFICES ASSUME TypeOK, RetryBatchIsDue, [Next]_vars,
                        NEW w \in RetryWorkers, call'[w] # call[w], call'[w] # None
                 PROVE  db[call'[w]].sendJob.nextRetryAt = "due"
    OBVIOUS
  <2>2. w \in Workers /\ JobState(w) = "WAITING_RETRY"
    BY WorkerKindsAreDisjoint DEF JobState, Workers
  <2>3. call'[w] \in batch[w] /\ db[call'[w]].sendJob.state = "WAITING_RETRY"
    BY <2>1, <2>2, NewCallIsProcessed
  <2> QED BY <2>1, <2>3 DEF RetryBatchIsDue
<1> QED BY <1>1, <1>2, <1>3, RowsCorrect, PTL DEF Spec, RetryOnlyWhenDue

-----------------------------------------------------------------------------
(* What leaves, and what a failed call leaves behind *)

\* A request that was not sent before is of an operation that is PROCESSING.  The
\* job was claimed, so the operation was submitted; and had a receipt settled it,
\* a payment would stand behind the receipt and this very request behind the payment.
LEMMA NewRequestIsOfProcessing ==
  ASSUME TypeOK, RowsOK, RequestsClaimed, ProviderInv, FinalOnlyByReceipt, [Next]_vars,
         NEW q \in sent' \ sent
  PROVE  db[q.op].status = "PROCESSING"
<1>1. PICK w \in Workers : PostPayment(w)
  BY DEF Next, CreateOperation, SubmitOperation, TimePasses, ReceiveReceipt, FindJobs,
    FindFails, JobFails, ClaimJob, ProcessJob, CallAccepted, CallFails, AcceptPayment,
    PostReceipt, Crash, provider, vars
<1>2. PICK o : o = call[w]
  OBVIOUS
<1>3. o \in Operations /\ Claimed(o) /\ q = [key |-> o, op |-> o]
  BY <1>1, <1>2 DEF PostPayment, CreatePaymentRequest, RequestsClaimed, TypeOK
<1>4. db[o].status \in {"PROCESSING"} \cup Result
  BY <1>3 DEF RowsOK, RowOK, Row, OperationStatus, JobAgreesWithStatus, Claimed, Result
<1>5. db[o].status \notin Result
  <2>1. SUFFICES ASSUME db[o].status \in Result PROVE FALSE
    OBVIOUS
  <2>2. PICK r \in posted : r.op = o
    BY <1>3, <2>1 DEF FinalOnlyByReceipt
  <2>3. PICK p \in payments : p.op = o
    BY <2>2 DEF ProviderInv
  <2>4. [key |-> o, op |-> o] \in sent
    BY <2>3 DEF RequestsClaimed
  <2> QED BY <1>3, <2>4
<1> QED BY <1>3, <1>4, <1>5

\* However long a call waits for its connection, the request that leaves late, for
\* an operation a receipt has settled since the row was read, is one that left before.
THEOREM LateRequestsRepeatAlways ==
  ASSUME ConsistentProvider
  PROVE  Spec => LateRequestsRepeat
<1>1. TypeOK /\ RowsOK /\ RequestsClaimed /\ ProviderInv /\ FinalOnlyByReceipt /\ [Next]_vars =>
        [\A q \in sent' \ sent : db[q.op].status = "PROCESSING"]_vars
  BY NewRequestIsOfProcessing
<1> QED BY <1>1, RowsCorrect, RequestsClaimedAlways, ConsistentAlways, FinalOnlyByReceiptAlways,
           PTL DEF Spec, LateRequestsRepeat

\* The failure of a call, for a job that no receipt has completed meanwhile: the
\* attempt is counted and the next one planned, if the attempt has a delay and
\* the error fits its column; if not, the transaction has changed nothing.
PlansOrRollsBack(o, error) ==
  LET job == db[o].sendJob
  IN  IF Schedulable(job, error)
      THEN db' = [db EXCEPT ![o].sendJob = [job EXCEPT !.state = "WAITING_RETRY",
                                                       !.attempt = job.attempt + 1,
                                                       !.nextRetryAt = "later",
                                                       !.lastError = "set"]]
      ELSE db' = db

\* Both ends of a failed call are one of the two.
LEMMA CallFailsPlans ==
  ASSUME TypeOK, CallsMatchJobs, NEW w \in Workers, NEW error \in TextSizes,
         CallFails(w, error), db[call[w]].sendJob.state \in {"RUNNING", "WAITING_RETRY"}
  PROVE  PlansOrRollsBack(call[w], error)
<1> DEFINE o == call[w]
           row == db[o]
           job == row.sendJob
           planned == [job EXCEPT !.state = "WAITING_RETRY", !.attempt = job.attempt + 1,
                                  !.nextRetryAt = "later", !.lastError = "set"]
<1>1. o \in Operations /\ w \notin PendingWorkers /\ job.state = JobState(w)
  BY DEF CallFails, TypeOK, CallsMatchJobs
<1>2. row \in Row /\ job \in SendJob /\ db \in [Operations -> Row]
  BY <1>1 DEF TypeOK, Row
<1>3. db' = [db EXCEPT ![o] = IF w \in RunningWorkers THEN MoveToRetry(row, error)
                                                      ELSE RecordRetryFailure(row, error)]
  BY DEF CallFails
<1>4. CASE ~ Schedulable(job, error)
  <2>1. MoveToRetry(row, error) = row /\ RecordRetryFailure(row, error) = row
    BY <1>4 DEF MoveToRetry, RecordRetryFailure
  <2>2. db' = db
    BY <1>1, <1>2, <1>3, <2>1
  <2> QED BY <1>4, <2>2 DEF PlansOrRollsBack
<1>5. CASE Schedulable(job, error)
  <2> DEFINE row1 == IF w \in RunningWorkers THEN MoveToRetry(row, error)
                                             ELSE RecordRetryFailure(row, error)
  <2>1. ASSUME w \in RunningWorkers
        PROVE  row1 = [row EXCEPT !.sendJob = planned]
    <3>1. job.state = "RUNNING"
      BY <1>1, <2>1 DEF JobState
    <3>2. [ScheduleRetry(job) EXCEPT !.state = "WAITING_RETRY"] = planned
      BY <1>2 DEF ScheduleRetry, SendJob
    <3>3. row1 = [row EXCEPT !.sendJob = planned]
      BY <1>2, <1>5, <2>1, <3>1, <3>2 DEF MoveToRetry, Row
    <3> QED BY <3>3
  <2>2. ASSUME w \notin RunningWorkers
        PROVE  row1 = [row EXCEPT !.sendJob = planned]
    <3>1. job.state = "WAITING_RETRY"
      BY <1>1, <2>2 DEF JobState
    <3>2. ScheduleRetry(job) = planned
      BY <1>2, <3>1 DEF ScheduleRetry, SendJob
    <3>3. row1 = [row EXCEPT !.sendJob = planned]
      BY <1>2, <1>5, <2>2, <3>1, <3>2 DEF RecordRetryFailure, Row
    <3> QED BY <3>3
  <2>3. row1 = [row EXCEPT !.sendJob = planned]
    BY <2>1, <2>2
  <2>4. db' = [db EXCEPT ![o].sendJob = planned]
    <3> HIDE DEF row1, planned
    <3> QED BY <1>1, <1>2, <1>3, <2>3 DEF row1
  <2> QED BY <1>5, <2>4 DEF PlansOrRollsBack
<1> QED BY <1>4, <1>5

\* FailedAttemptSchedulesRetry has no other exceptions than the two that the runs
\* finding_backoff_overflow and finding_long_error show.
THEOREM FailedAttemptIsPlanned ==
  ASSUME OneRunningWorker, OneRetryWorker
  PROVE  Spec => [][\A w \in Workers, error \in TextSizes :
                      /\ CallFails(w, error)
                      /\ db[call[w]].sendJob.state \in {"RUNNING", "WAITING_RETRY"}
                      => PlansOrRollsBack(call[w], error)]_vars
<1>1. Init => CallsMatchJobs /\ OneCallPerOperation
  BY DEF Init, CallsMatchJobs, OneCallPerOperation
<1>2. TypeOK /\ RowsOK /\ CallsMatchJobs /\ OneCallPerOperation /\ [Next]_vars
        => CallsMatchJobs' /\ OneCallPerOperation'
  BY CallsStayExclusive
<1>3. TypeOK /\ CallsMatchJobs /\ [Next]_vars =>
        [\A w \in Workers, error \in TextSizes :
           /\ CallFails(w, error)
           /\ db[call[w]].sendJob.state \in {"RUNNING", "WAITING_RETRY"}
           => PlansOrRollsBack(call[w], error)]_vars
  BY CallFailsPlans
<1> QED BY <1>1, <1>2, <1>3, RowsCorrect, PTL DEF Spec
=============================================================================
