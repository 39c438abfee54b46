----------------------- MODULE PaymentServiceProofs -----------------------
(***************************************************************************)
(* Proofs about PaymentService, for any sets of operations, ids and        *)
(* workers and any bounds.                                                 *)
(***************************************************************************)
EXTENDS PaymentService, PaymentRowsProofs

RowsOK == \A o \in Operations : RowOK(db[o])

\* What a step does to one row: the transaction bodies with their guards.
RowStep(o) ==
  \/ db'[o] = db[o]
  \/ db[o].status = "ABSENT" /\ db'[o] = Create(db[o])
  \/ db[o].status = "CREATED" /\ db'[o] = Submit(db[o])
  \/ \E r \in posted :
       /\ r.op = o
       /\ AcceptsPaymentId(o, r.id)
       /\ \/ db[o].status = "PROCESSING" /\ db'[o] = CompleteOperation(db[o], r)
          \/ db[o].status \notin {"ABSENT", "PROCESSING"} /\ db'[o] = HandleLateReceipt(db[o], r)
  \/ db'[o] = ClaimSendJob(db[o])
  \/ \E p \in payments :
       /\ p.key = CreatePaymentRequest(o).key
       /\ db'[o] = CompleteJob(db[o], p.id, AcceptsPaymentId(o, p.id))
  \/ \E error \in TextSize :
       db'[o] = MoveToRetry(db[o], error) \/ db'[o] = RecordRetryFailure(db[o], error)
  \/ /\ db[o].sendJob.nextRetryAt = "later"
     /\ db'[o] = [db[o] EXCEPT !.sendJob.nextRetryAt = "due"]

\* Every step is one body on one row, or leaves the rows alone.
LEMMA RowSteps ==
  ASSUME TypeOK, [Next]_vars
  PROVE  /\ db' = [o \in Operations |-> db'[o]]
         /\ \A o \in Operations : RowStep(o)
<1> USE DEF TypeOK
<1>1. CASE db' = db
  BY <1>1 DEF RowStep
<1>2. ASSUME NEW o \in Operations, CreateOperation(o) \/ SubmitOperation(o) \/ TimePasses(o)
      PROVE  /\ db' = [x \in Operations |-> db'[x]]
             /\ \A x \in Operations : RowStep(x)
  BY <1>2 DEF CreateOperation, SubmitOperation, TimePasses, RowStep
<1>3. ASSUME NEW r \in posted, ReceiveReceipt(r)
      PROVE  /\ db' = [x \in Operations |-> db'[x]]
             /\ \A x \in Operations : RowStep(x)
  BY <1>3 DEF ReceiveReceipt, RowStep, Receipt
<1>4. ASSUME NEW w \in Workers, NEW o \in Operations, ClaimJob(w, o)
      PROVE  /\ db' = [x \in Operations |-> db'[x]]
             /\ \A x \in Operations : RowStep(x)
  BY <1>4 DEF ClaimJob, RowStep
<1>5. ASSUME NEW w \in Workers, NEW id \in PaymentIds, CallAccepted(w, id)
      PROVE  /\ db' = [x \in Operations |-> db'[x]]
             /\ \A x \in Operations : RowStep(x)
  <2>1. call[w] \in Operations
    BY <1>5 DEF CallAccepted
  <2> QED BY <1>5, <2>1 DEF CallAccepted, RowStep
<1>6. ASSUME NEW w \in Workers, NEW error \in TextSizes, CallFails(w, error)
      PROVE  /\ db' = [x \in Operations |-> db'[x]]
             /\ \A x \in Operations : RowStep(x)
  <2>1. call[w] \in Operations /\ error \in TextSize
    BY <1>6, TextSizesAssumption DEF CallFails
  <2> QED BY <1>6, <2>1 DEF CallFails, RowStep
<1>7. CASE \E w \in Workers : FindJobs(w) \/ FindFails(w) \/ JobFails(w) \/ PostPayment(w)
  BY <1>1, <1>7 DEF FindJobs, FindFails, JobFails, PostPayment
<1>8. CASE \E w \in Workers, o \in Operations : ProcessJob(w, o)
  BY <1>1, <1>8 DEF ProcessJob
<1>9. CASE \E q \in sent, id \in PaymentIds : AcceptPayment(q, id)
  BY <1>1, <1>9 DEF AcceptPayment
<1>10. CASE \E r \in Receipts : PostReceipt(r)
  BY <1>1, <1>10 DEF PostReceipt
<1>11. CASE Crash
  BY <1>1, <1>11 DEF Crash
<1>12. CASE UNCHANGED vars
  BY <1>1, <1>12 DEF vars
<1> QED BY <1>2, <1>3, <1>4, <1>5, <1>6, <1>7, <1>8, <1>9, <1>10, <1>11, <1>12 DEF Next

\* A step keeps every row RowOK: one lemma of PaymentRowsProofs per body.
LEMMA RowsStayOK ==
  ASSUME TypeOK, RowsOK, [Next]_vars
  PROVE  RowsOK'
<1>1. SUFFICES ASSUME NEW o \in Operations PROVE RowOK(db'[o])
  BY DEF RowsOK
<1>2. RowOK(db[o]) /\ RowStep(o)
  BY RowSteps DEF RowsOK
<1>3. CASE \/ db'[o] = db[o]
           \/ db[o].status = "ABSENT" /\ db'[o] = Create(db[o])
           \/ db[o].status = "CREATED" /\ db'[o] = Submit(db[o])
           \/ db'[o] = ClaimSendJob(db[o])
  BY <1>2, <1>3, CreateOK, SubmitOK, ClaimSendJobOK
<1>4. ASSUME NEW r \in posted,
             \/ db[o].status = "PROCESSING" /\ db'[o] = CompleteOperation(db[o], r)
             \/ db[o].status \notin {"ABSENT", "PROCESSING"} /\ db'[o] = HandleLateReceipt(db[o], r)
      PROVE  RowOK(db'[o])
  <2>1. r \in Receipt
    BY DEF TypeOK
  <2> QED BY <1>2, <1>4, <2>1, CompleteOperationOK, HandleLateReceiptOK
<1>5. ASSUME NEW p \in payments,
             db'[o] = CompleteJob(db[o], p.id, AcceptsPaymentId(o, p.id))
      PROVE  RowOK(db'[o])
  <2>1. p.id \in PaymentIds /\ AcceptsPaymentId(o, p.id) \in BOOLEAN
    BY DEF TypeOK, Payment, AcceptsPaymentId
  <2> QED BY <1>2, <1>5, <2>1, CompleteJobOK
<1>6. ASSUME NEW error \in TextSize,
             db'[o] = MoveToRetry(db[o], error) \/ db'[o] = RecordRetryFailure(db[o], error)
      PROVE  RowOK(db'[o])
  BY <1>2, <1>6, FailureOK
<1>7. CASE /\ db[o].sendJob.nextRetryAt = "later"
           /\ db'[o] = [db[o] EXCEPT !.sendJob.nextRetryAt = "due"]
  BY <1>2, <1>7, DueOK
<1> QED BY <1>2, <1>3, <1>4, <1>5, <1>6, <1>7 DEF RowStep

\* The workers' and the provider's part of TypeOK.
LEMMA TypesStayOK ==
  ASSUME TypeOK, RowsOK', [Next]_vars
  PROVE  TypeOK'
<1>1. db' \in [Operations -> Row]
  BY RowSteps DEF RowsOK, RowOK
<1>2. ASSUME NEW o \in Operations, CreateOperation(o) \/ SubmitOperation(o) \/ TimePasses(o)
      PROVE  TypeOK'
  BY <1>1, <1>2 DEF TypeOK, CreateOperation, SubmitOperation, TimePasses, worker, provider, faults
<1>3. ASSUME NEW r \in posted, ReceiveReceipt(r)
      PROVE  TypeOK'
  BY <1>1, <1>3 DEF TypeOK, ReceiveReceipt, worker, provider, faults
<1>4. ASSUME NEW w \in Workers, FindJobs(w) \/ FindFails(w)
      PROVE  TypeOK'
  BY <1>1, <1>4 DEF TypeOK, FindJobs, FindFails, FoundJobs, provider, faults
<1>5. ASSUME NEW w \in Workers, JobFails(w)
      PROVE  TypeOK'
  <2>1. batch' \in [Workers -> SUBSET Operations] /\ call' \in [Workers -> Operations \cup {None}]
    BY <1>5 DEF TypeOK, JobFails
  <2> QED BY <1>1, <1>5, <2>1 DEF TypeOK, JobFails, provider
<1>6. ASSUME NEW w \in Workers, NEW o \in Operations, ClaimJob(w, o)
      PROVE  TypeOK'
  BY <1>1, <1>6 DEF TypeOK, ClaimJob, provider, faults
<1>7. ASSUME NEW w \in Workers, NEW o \in Operations, ProcessJob(w, o)
      PROVE  TypeOK'
  BY <1>1, <1>7 DEF TypeOK, ProcessJob, provider, faults
<1>8. ASSUME NEW w \in Workers, NEW id \in PaymentIds, CallAccepted(w, id)
      PROVE  TypeOK'
  BY <1>1, <1>8 DEF TypeOK, CallAccepted, provider, faults
<1>9. ASSUME NEW w \in Workers, NEW error \in TextSizes, CallFails(w, error)
      PROVE  TypeOK'
  BY <1>1, <1>9 DEF TypeOK, CallFails, provider, faults
<1>10. ASSUME NEW q \in sent, NEW id \in PaymentIds, AcceptPayment(q, id)
       PROVE  TypeOK'
  BY <1>1, <1>10 DEF TypeOK, AcceptPayment, worker, faults, Request, Payment
<1>11. ASSUME NEW r \in Receipts, PostReceipt(r)
       PROVE  TypeOK'
  BY <1>1, <1>11 DEF TypeOK, PostReceipt, worker, faults, Receipts
<1>12. CASE Crash
  BY <1>1, <1>12 DEF TypeOK, Crash, provider
<1>13. ASSUME NEW w \in Workers, PostPayment(w)
       PROVE  TypeOK'
  <2>1. call[w] \in Operations
    BY <1>13 DEF TypeOK, PostPayment
  <2>2. CreatePaymentRequest(call[w]) \in Request
    BY <2>1 DEF CreatePaymentRequest, Request
  <2> QED BY <1>1, <1>13, <2>2 DEF TypeOK, PostPayment, worker, faults
<1>14. CASE UNCHANGED vars
  BY <1>1, <1>14 DEF TypeOK, vars
<1> QED BY <1>2, <1>3, <1>4, <1>5, <1>6, <1>7, <1>8, <1>9, <1>10, <1>11, <1>12, <1>13, <1>14
     DEF Next

LEMMA InitOK == Init => TypeOK /\ RowsOK
<1> SUFFICES ASSUME Init PROVE TypeOK /\ RowsOK
  OBVIOUS
<1>1. RowsOK
  BY NoRowOK DEF Init, RowsOK
<1>2. db \in [Operations -> Row]
  BY NoRowOK DEF Init, RowOK
<1>3. TypeOK
  BY <1>2 DEF Init, TypeOK
<1> QED BY <1>1, <1>3

\* Every variable keeps its type and every row stays RowOK, whatever the API
\* handlers, the workers, the provider and the faults do.
THEOREM RowsCorrect == Spec => [](TypeOK /\ RowsOK)
<1>1. TypeOK /\ RowsOK /\ [Next]_vars => (TypeOK /\ RowsOK)'
  BY RowsStayOK, TypesStayOK
<1> QED BY InitOK, <1>1, PTL DEF Spec

\* TypeOK holds in every reachable state.
THEOREM TypeCorrect == Spec => []TypeOK
BY RowsCorrect, PTL

\* A job exists exactly from the submission on, and a settled operation has
\* nothing left to send, in every reachable state.
THEOREM JobFollowsStatusAlways == Spec => []JobFollowsStatus
<1>1. RowsOK => JobFollowsStatus
  BY DEF RowsOK, RowOK, JobFollowsStatus
<1> QED BY <1>1, RowsCorrect, PTL

\* No reachable state has a delivery that is DONE without the provider's id.
THEOREM DeliveredHasPaymentIdAlways == Spec => []DeliveredHasPaymentId
<1>1. RowsOK => DeliveredHasPaymentId
  BY DEF RowsOK, RowOK, DeliveredHasPaymentId
<1> QED BY <1>1, RowsCorrect, PTL

\* A job that waits has its next attempt planned, in every reachable state.
THEOREM RetryMetadataAlways == Spec => []RetryMetadata
<1>1. RowsOK => RetryMetadata
  BY DEF RowsOK, RowOK, RetryMetadata
<1> QED BY <1>1, RowsCorrect, PTL

\* The history explains the status an API client reads, in every reachable state.
THEOREM HistoryMatchesStatusAlways == Spec => []HistoryMatchesStatus
<1>1. RowsOK => HistoryMatchesStatus
  BY DEF RowsOK, RowOK, HistoryMatchesStatus
<1> QED BY <1>1, RowsCorrect, PTL
=============================================================================
