---------------------- MODULE PaymentLifecycleProofs ----------------------
(***************************************************************************)
(* PaymentService implements PaymentLifecycle when the provider is         *)
(* consistent, and SendJobLifecycle when there is one worker of each kind: *)
(* every step maps to a step of the lifecycle or a stutter.                *)
(***************************************************************************)
EXTENDS PaymentSafetyProofs

\* The invariants the refinement mapping rests on.
MappingInv ==
  /\ TypeOK /\ RowsOK /\ RequestsClaimed
  /\ ProviderInv /\ StoredIdIsProviders /\ FinalOnlyByReceipt

status == [o \in Operations |-> db[o].status]
charge == [o \in Operations |-> ChargeOf(o)]
knownId == [o \in Operations |-> db[o].providerPaymentId]

LEMMA MappingInvAlways ==
  ASSUME ConsistentProvider
  PROVE  Spec => []MappingInv
BY RowsCorrect, RequestsClaimedAlways, ConsistentAlways, FinalOnlyByReceiptAlways, PTL
   DEF MappingInv

\* The charge of an operation is its one payment.
LEMMA ChargeIsPayment ==
  ASSUME RequestsClaimed, ProviderInv, NEW p \in payments
  PROVE  ChargeOf(p.op) = p.id
<1>0. \A q \in payments : q.key = q.op
  BY DEF RequestsClaimed
<1>1. \A q \in payments : q.op = p.op => q = p
  BY <1>0 DEF ProviderInv
<1>2. (CHOOSE q \in payments : q.op = p.op) = p
  BY <1>1
<1> QED BY <1>2 DEF ChargeOf

\* A payment belongs to an operation that was submitted.
LEMMA PaymentIsSubmitted ==
  ASSUME MappingInv, NEW p \in payments
  PROVE  /\ p.op \in Operations /\ p.id \in PaymentIds
         /\ db[p.op].status \in {"PROCESSING"} \cup Result
<1>1. p.op \in Operations /\ p.id \in PaymentIds
  BY DEF MappingInv, TypeOK, Payment
<1>2. db[p.op].sendJob.state # "NONE"
  BY DEF MappingInv, RequestsClaimed, Claimed
<1>3. db[p.op].status \notin {"ABSENT", "CREATED"} /\ db[p.op] \in Row
  BY <1>1, <1>2 DEF MappingInv, RowsOK, RowOK, JobAgreesWithStatus
<1> QED BY <1>1, <1>3 DEF Row, OperationStatus

\* A step changes at most one row, and then nothing at the provider.
LEMMA OneRowAtATime ==
  ASSUME TypeOK, [Next]_vars
  PROVE  \/ db' = db /\ payments' = payments
         \/ \E q \in sent, id \in PaymentIds : AcceptPayment(q, id)
         \/ /\ payments' = payments
            /\ \E o \in Operations : \A x \in Operations \ {o} : db'[x] = db[x]
<1> DEFINE Goal == \/ db' = db /\ payments' = payments
                   \/ /\ payments' = payments
                      /\ \E o \in Operations : \A x \in Operations \ {o} : db'[x] = db[x]
<1>1. ASSUME NEW o \in Operations, CreateOperation(o) \/ SubmitOperation(o) \/ TimePasses(o)
      PROVE  Goal
  BY <1>1 DEF TypeOK, CreateOperation, SubmitOperation, TimePasses, provider
<1>2. ASSUME NEW r \in posted, ReceiveReceipt(r)
      PROVE  Goal
  BY <1>2 DEF TypeOK, Receipt, ReceiveReceipt, provider
<1>3. ASSUME NEW w \in Workers, NEW o \in Operations, ClaimJob(w, o)
      PROVE  Goal
  BY <1>3 DEF TypeOK, ClaimJob, provider
<1>4. ASSUME NEW w \in Workers, NEW id \in PaymentIds, CallAccepted(w, id)
      PROVE  Goal
  BY <1>4 DEF TypeOK, CallAccepted, provider
<1>5. ASSUME NEW w \in Workers, NEW error \in TextSizes, CallFails(w, error)
      PROVE  Goal
  BY <1>5 DEF TypeOK, CallFails, provider
<1>6. CASE \/ \E w \in Workers : FindJobs(w) \/ FindFails(w) \/ JobFails(w) \/ PostPayment(w)
           \/ \E w \in Workers, o \in Operations : ProcessJob(w, o)
           \/ \E r \in Receipts : PostReceipt(r)
           \/ Crash \/ UNCHANGED vars
  BY <1>6 DEF FindJobs, FindFails, JobFails, PostPayment, ProcessJob, PostReceipt, Crash,
    provider, vars
<1> QED BY <1>1, <1>2, <1>3, <1>4, <1>5, <1>6 DEF Next

\* The provider's step is the lifecycle's Charge.
LEMMA AcceptIsCharge ==
  ASSUME ConsistentProvider, MappingInv, MappingInv',
         NEW q \in sent, NEW id \in PaymentIds, AcceptPayment(q, id)
  PROVE  Lifecycle!Charge(q.op, id)
<1> DEFINE new == [key |-> q.key, op |-> q.op, id |-> id]
<1>1. /\ db' = db /\ payments' = payments \cup {new} /\ new \in payments'
      /\ \A p \in payments : p.key # q.key /\ p.id # id
  BY DEF AcceptPayment
<1>2. q.op \in Operations /\ q.key = q.op
      /\ \A p \in payments : p.key = p.op /\ p.op # q.op
  BY <1>1 DEF MappingInv, TypeOK, Request, RequestsClaimed
<1>3. ChargeOf(q.op) = None
  BY <1>2 DEF ChargeOf
<1>4. db[q.op].status = "PROCESSING"
  <2>1. db[q.op].sendJob.state # "NONE"
    BY DEF MappingInv, RequestsClaimed, Claimed
  <2>2. db[q.op].status \notin {"ABSENT", "CREATED"} /\ db[q.op] \in Row
    BY <1>2, <2>1 DEF MappingInv, RowsOK, RowOK, JobAgreesWithStatus
  <2>3. db[q.op].status \notin Result
    BY <1>2 DEF MappingInv, FinalOnlyByReceipt, ProviderInv
  <2> QED BY <2>2, <2>3 DEF Row, OperationStatus
<1>5. \A other \in Operations : ChargeOf(other) # id
  <2>1. SUFFICES ASSUME NEW other \in Operations, ChargeOf(other) = id PROVE FALSE
    OBVIOUS
  <2>2. PICK p \in payments : p.op = other
    BY <2>1, NoneIsNoId DEF ChargeOf
  <2> QED BY <1>1, <2>1, <2>2, ChargeIsPayment DEF MappingInv
<1>6. ChargeOf(q.op)' = id
  <2>1. \A p \in payments' : p.op = q.op => p = new
    BY <1>1, <1>2
  <2>2. (CHOOSE p \in payments' : p.op = q.op) = new
    BY <1>1, <2>1
  <2> HIDE DEF new
  <2>3. new.id = id /\ new.op = q.op
    BY DEF new
  <2> QED BY <1>1, <2>2, <2>3 DEF ChargeOf
<1>7. ASSUME NEW o \in Operations, o # q.op
      PROVE  ChargeOf(o)' = ChargeOf(o)
  <2>1. CASE \E p \in payments : p.op = o
    <3>1. PICK p \in payments : p.op = o
      BY <2>1
    <3>2. p \in payments' /\ ChargeOf(o) = p.id
      BY <1>1, <3>1, ChargeIsPayment DEF MappingInv
    <3>3. \A x \in payments' : x.op = o => x = p
      <4>1. \A x \in payments' : x.key = x.op
        BY DEF MappingInv, RequestsClaimed
      <4> QED BY <3>1, <3>2, <4>1 DEF MappingInv, ProviderInv
    <3>4. (CHOOSE x \in payments' : x.op = o) = p
      BY <3>1, <3>2, <3>3
    <3> QED BY <3>1, <3>2, <3>4 DEF ChargeOf
  <2>2. CASE ~ \E p \in payments : p.op = o
    <3>1. ~ \E p \in payments' : p.op = o
      BY <1>1, <1>7, <2>2
    <3> QED BY <2>2, <3>1 DEF ChargeOf
  <2> QED BY <2>1, <2>2
<1>8. charge' = [charge EXCEPT ![q.op] = id]
  BY <1>2, <1>6, <1>7 DEF charge
<1>9. status' = status /\ knownId' = knownId
  BY <1>1 DEF status, knownId
<1> QED BY <1>2, <1>3, <1>4, <1>5, <1>8, <1>9
    DEF Lifecycle!Charge, charge, status, knownId

\* A step on the row of o is a step of o's lifecycle, or it is not visible there.
LEMMA RowStepIsLifecycleStep ==
  ASSUME MappingInv, [Next]_vars, payments' = payments,
         NEW o \in Operations, \A x \in Operations \ {o} : db'[x] = db[x]
  PROVE  Lifecycle!LifecycleNext \/ UNCHANGED Lifecycle!lifecycle
<1>1. Provenance(o, db[o], db'[o]) /\ Advances(db[o], db'[o])
  BY RowProvenance, RowAdvances DEF MappingInv
<1>2. /\ charge' = charge
      /\ status' = [status EXCEPT ![o] = db'[o].status]
      /\ knownId' = [knownId EXCEPT ![o] = db'[o].providerPaymentId]
      /\ status[o] = db[o].status /\ knownId[o] = db[o].providerPaymentId
      /\ charge[o] = ChargeOf(o)
  BY DEF charge, status, knownId, ChargeOf
\* Whatever id the row takes is the charge of o.
<1>3. ASSUME NEW id \in PaymentIds,
             \/ \E r : ReceiptFor(o, r) /\ id = r.id
             \/ \E p : AnswerFor(o, p) /\ id = p.id
      PROVE  /\ ChargeOf(o) = id /\ ChargeOf(o) # None
             /\ db[o].status \in {"PROCESSING"} \cup Result
  <2>1. PICK p \in payments : p.op = o /\ p.id = id
    BY <1>3 DEF ReceiptFor, AnswerFor, CreatePaymentRequest, MappingInv, ProviderInv, RequestsClaimed
  <2> QED BY <2>1, ChargeIsPayment, PaymentIsSubmitted, NoneIsNoId DEF MappingInv
<1>4. CASE db'[o].status = db[o].status /\ db'[o].providerPaymentId = db[o].providerPaymentId
  <2>1. status' = status /\ knownId' = knownId
    BY <1>2, <1>4 DEF status, knownId
  <2> QED BY <1>2, <2>1 DEF Lifecycle!lifecycle, status, charge, knownId
<1>5. CASE db'[o].status = db[o].status /\ db'[o].providerPaymentId # db[o].providerPaymentId
  <2>1. db[o].providerPaymentId = None
    BY <1>1, <1>5 DEF Advances
  <2>2. PICK id \in PaymentIds :
          /\ db'[o].providerPaymentId = id
          /\ \/ \E r : ReceiptFor(o, r) /\ id = r.id
             \/ \E p : AnswerFor(o, p) /\ id = p.id
    BY <1>1, <1>5 DEF Provenance, ReceiptFor, AnswerFor, MappingInv, TypeOK, Receipt, Payment
  <2>3. ChargeOf(o) = id /\ ChargeOf(o) # None /\ db[o].status \in {"PROCESSING"} \cup Result
    BY <1>3, <2>2
  <2>4. db[o].status = "PROCESSING"
    BY <2>1, <2>3 DEF MappingInv, RowsOK, RowOK, JobAgreesWithStatus, DeliveryLeavesId
  <2>5. status' = status
    BY <1>2, <1>5 DEF status
  <2>6. Lifecycle!LearnId(o)
    BY <1>2, <2>1, <2>2, <2>3, <2>4, <2>5 DEF Lifecycle!LearnId, status, charge, knownId
  <2> QED BY <2>6 DEF Lifecycle!LifecycleNext
<1>6. CASE /\ db[o].status = "ABSENT" /\ db'[o].status = "CREATED"
           /\ db'[o].providerPaymentId = db[o].providerPaymentId
  <2>1. knownId' = knownId
    BY <1>2, <1>6 DEF knownId
  <2>2. Lifecycle!Register(o)
    BY <1>2, <1>6, <2>1 DEF Lifecycle!Register, status, charge, knownId
  <2> QED BY <2>2 DEF Lifecycle!LifecycleNext
<1>7. CASE /\ db[o].status = "CREATED" /\ db'[o].status = "PROCESSING"
           /\ db'[o].providerPaymentId = db[o].providerPaymentId
  <2>1. knownId' = knownId
    BY <1>2, <1>7 DEF knownId
  <2>2. Lifecycle!RequestPayment(o)
    BY <1>2, <1>7, <2>1 DEF Lifecycle!RequestPayment, status, charge, knownId
  <2> QED BY <2>2 DEF Lifecycle!LifecycleNext
<1>8. ASSUME db[o].status = "PROCESSING", db'[o].status \in Result,
             NEW r, ReceiptFor(o, r), db'[o].status = r.result,
             db'[o].providerPaymentId = r.id
      PROVE  Lifecycle!LifecycleNext
  <2>1. r.id \in PaymentIds
    BY <1>8 DEF ReceiptFor, MappingInv, TypeOK, Receipt
  <2>2. ChargeOf(o) = r.id /\ ChargeOf(o) # None
    BY <1>3, <1>8, <2>1
  <2>3. Lifecycle!Settle(o, r.result) /\ r.result \in {"COMPLETED", "REJECTED"}
    BY <1>2, <1>8, <2>2 DEF Lifecycle!Settle, Result, status, charge, knownId
  <2> QED BY <2>3 DEF Lifecycle!LifecycleNext
<1> QED BY <1>1, <1>4, <1>5, <1>6, <1>7, <1>8 DEF Provenance

\* The service implements the lifecycle: at most one charge, made after the
\* submission was recorded; its id and no other; the result its receipt gave.
THEOREM ServiceImplementsLifecycle ==
  ASSUME ConsistentProvider
  PROVE  Spec => ImplementsLifecycle
<1>1. Init => Lifecycle!LifecycleInit
  BY DEF Init, NoRow, ChargeOf, Lifecycle!LifecycleInit
<1>2. MappingInv /\ MappingInv' /\ [Next]_vars =>
        [Lifecycle!LifecycleNext]_(Lifecycle!lifecycle)
  <2>1. SUFFICES ASSUME MappingInv, MappingInv', [Next]_vars
                 PROVE  Lifecycle!LifecycleNext \/ UNCHANGED Lifecycle!lifecycle
    OBVIOUS
  <2>2. CASE db' = db /\ payments' = payments
    BY <2>2 DEF Lifecycle!lifecycle, ChargeOf
  <2>3. ASSUME NEW q \in sent, NEW id \in PaymentIds, AcceptPayment(q, id)
        PROVE  Lifecycle!LifecycleNext
    <3>1. q.op \in Operations
      BY <2>1 DEF MappingInv, TypeOK, Request
    <3> QED BY <2>1, <2>3, <3>1, AcceptIsCharge DEF Lifecycle!LifecycleNext
  <2>4. CASE /\ payments' = payments
             /\ \E o \in Operations : \A x \in Operations \ {o} : db'[x] = db[x]
    BY <2>1, <2>4, RowStepIsLifecycleStep
  <2>5. TypeOK
    BY <2>1 DEF MappingInv
  <2> QED BY <2>1, <2>2, <2>3, <2>4, <2>5, OneRowAtATime
<1> QED BY <1>1, <1>2, MappingInvAlways, PTL DEF Spec, ImplementsLifecycle, Lifecycle!LifecycleSpec

-----------------------------------------------------------------------------
(* The lifecycle of a job *)

\* The invariants this mapping rests on.
JobsInv == TypeOK /\ RowsOK /\ CallsMatchJobs /\ OneCallPerOperation

jobState == [o \in Operations |-> db[o].sendJob.state]
jobAttempt == [o \in Operations |-> db[o].sendJob.attempt]
taken == {call[w] : w \in Workers} \ {None}

\* Calls that end while the rows keep their jobs let the jobs go.
LEMMA CallsEnd ==
  ASSUME TypeOK, \A w \in Workers : call'[w] \in {call[w], None},
         jobState' = jobState, jobAttempt' = jobAttempt
  PROVE  Jobs!JobsNext \/ UNCHANGED Jobs!jobs
<1>1. /\ taken \ taken' \in SUBSET Operations
      /\ taken \ taken' \subseteq taken
      /\ taken' = taken \ (taken \ taken')
  BY DEF taken, TypeOK
<1>2. PICK S \in SUBSET Operations : S \subseteq taken /\ taken' = taken \ S
  BY <1>1
<1>3. CASE S = {}
  <2>1. taken' = taken
    BY <1>2, <1>3
  <2> QED BY <2>1 DEF Jobs!jobs, jobState, jobAttempt, taken
<1>4. CASE S # {}
  <2>1. Jobs!Abandon(S)
    BY <1>2, <1>4 DEF Jobs!Abandon, jobState, jobAttempt, taken
  <2> QED BY <2>1 DEF Jobs!JobsNext
<1> QED BY <1>3, <1>4

\* A job that keeps its state and its attempt.
LEMMA JobsUnchanged ==
  ASSUME \A o \in Operations : /\ db'[o].sendJob.state = db[o].sendJob.state
                               /\ db'[o].sendJob.attempt = db[o].sendJob.attempt
  PROVE  jobState' = jobState /\ jobAttempt' = jobAttempt
BY DEF jobState, jobAttempt

\* The end of one call leaves the calls of other operations under way.
LEMMA OneCallEnds ==
  ASSUME TypeOK, OneCallPerOperation, NEW w \in Workers, call[w] # None,
         call' = [call EXCEPT ![w] = None]
  PROVE  /\ call[w] \in Operations /\ call[w] \in taken
         /\ taken' = taken \ {call[w]}
         /\ \A v \in Workers : call'[v] \in {call[v], None}
<1>1. \A v \in Workers : call'[v] = IF v = w THEN None ELSE call[v]
  BY DEF TypeOK
<1>2. \A v \in Workers : v # w => call[v] # call[w]
  BY DEF OneCallPerOperation
<1>3. call[w] \in Operations
  BY DEF TypeOK
<1> QED BY <1>1, <1>2, <1>3 DEF taken

\* An API handler submits a job, or settles it, or leaves the jobs alone.
LEMMA HandlersAreJobSteps ==
  ASSUME JobsInv, NEW o \in Operations,
         \/ CreateOperation(o) \/ SubmitOperation(o) \/ TimePasses(o)
         \/ \E r \in posted : r.op = o /\ ReceiveReceipt(r)
  PROVE  Jobs!JobsNext \/ UNCHANGED Jobs!jobs
<1> DEFINE row == db[o]
<1>1. /\ TypeOK /\ RowOK(row) /\ row \in Row /\ row.sendJob \in SendJob
      /\ db \in [Operations -> Row]
  BY DEF JobsInv, RowsOK, RowOK, TypeOK, Row
<1>2. call' = call
  BY DEF CreateOperation, SubmitOperation, TimePasses, ReceiveReceipt, worker
<1>3. taken' = taken /\ \A w \in Workers : call'[w] \in {call[w], None}
  BY <1>2 DEF taken
<1>4. ASSUME NEW row1, db' = [db EXCEPT ![o] = row1],
             row1.sendJob.state = row.sendJob.state,
             row1.sendJob.attempt = row.sendJob.attempt
      PROVE  Jobs!JobsNext \/ UNCHANGED Jobs!jobs
  <2>1. \A x \in Operations : /\ db'[x].sendJob.state = db[x].sendJob.state
                              /\ db'[x].sendJob.attempt = db[x].sendJob.attempt
    BY <1>1, <1>4
  <2> QED BY <1>1, <1>3, <2>1, JobsUnchanged, CallsEnd
<1>5. CASE CreateOperation(o)
  <2>1. db' = [db EXCEPT ![o] = Create(row)]
    BY <1>1, <1>5 DEF CreateOperation
  <2>2. Create(row).sendJob = row.sendJob
    BY <1>1 DEF Create, Row
  <2> QED BY <1>4, <2>1, <2>2
<1>6. CASE TimePasses(o)
  <2> DEFINE row1 == [row EXCEPT !.sendJob.nextRetryAt = "due"]
  <2>1. db' = [db EXCEPT ![o] = row1]
    BY <1>1, <1>6 DEF TimePasses
  <2>2. row1.sendJob.state = row.sendJob.state /\ row1.sendJob.attempt = row.sendJob.attempt
    BY <1>1 DEF Row, SendJob
  <2> HIDE DEF row1
  <2> QED BY <1>4, <2>1, <2>2
<1>7. CASE SubmitOperation(o)
  <2>1. db' = [db EXCEPT ![o] = Submit(row)] /\ row.status = "CREATED"
    BY <1>1, <1>7 DEF SubmitOperation
  <2>2. row.sendJob.state = "NONE" /\ row.sendJob.attempt = 0
    BY <1>1, <2>1 DEF RowOK, JobAgreesWithStatus, RetryIsPlanned, NoSendJob
  <2>3. Submit(row).sendJob.state = "PENDING" /\ Submit(row).sendJob.attempt = 0
    BY <1>1 DEF Submit, Row, NoSendJob
  <2> HIDE DEF row
  <2>4. jobState' = [jobState EXCEPT ![o] = "PENDING"] /\ jobState[o] = "NONE"
    BY <1>1, <2>1, <2>2, <2>3 DEF jobState, row
  <2>5. jobAttempt' = jobAttempt
    BY <1>1, <2>1, <2>2, <2>3 DEF jobAttempt, row
  <2>6. Jobs!Submit(o)
    BY <1>3, <2>4, <2>5 DEF Jobs!Submit, jobState, jobAttempt, taken
  <2> QED BY <2>6 DEF Jobs!JobsNext
<1>8. ASSUME NEW r \in posted, r.op = o, ReceiveReceipt(r)
      PROVE  Jobs!JobsNext \/ UNCHANGED Jobs!jobs
  <2>1. CASE /\ row.status # "PROCESSING"
             /\ db' = [db EXCEPT ![o] = HandleLateReceipt(row, r)]
    <3>1. HandleLateReceipt(row, r).sendJob = row.sendJob
      BY <1>1 DEF HandleLateReceipt, Row
    <3> QED BY <1>4, <2>1, <3>1
  <2>2. CASE /\ row.status = "PROCESSING"
             /\ db' = [db EXCEPT ![o] = CompleteOperation(row, r)]
    <3> DEFINE row1 == CompleteOperation(row, r)
    <3>1. row.sendJob.state # "NONE"
      BY <1>1, <2>2 DEF RowOK, JobAgreesWithStatus
    <3>2. row1.sendJob.state = "DONE" /\ row1.sendJob.attempt = row.sendJob.attempt
      BY <1>1, <3>1 DEF CompleteOperation, Row, SendJob
    <3> HIDE DEF row, row1
    <3>3. CASE row.sendJob.state = "DONE"
      BY <1>4, <2>2, <3>2, <3>3 DEF row1
    <3>4. CASE row.sendJob.state # "DONE"
      <4>1. jobState' = [jobState EXCEPT ![o] = "DONE"] /\ jobState[o] \notin {"NONE", "DONE"}
        BY <1>1, <2>2, <3>1, <3>2, <3>4 DEF jobState, row, row1
      <4>2. jobAttempt' = jobAttempt
        BY <1>1, <2>2, <3>2 DEF jobAttempt, row, row1
      <4>3. Jobs!Settle(o)
        BY <1>3, <4>1, <4>2 DEF Jobs!Settle, jobState, jobAttempt, taken
      <4> QED BY <4>3 DEF Jobs!JobsNext
    <3> QED BY <3>3, <3>4
  <2> QED BY <1>8, <2>1, <2>2 DEF ReceiveReceipt
<1> QED BY <1>5, <1>6, <1>7, <1>8

\* A worker's turn claims a job, takes it up, or passes over it.
LEMMA TurnsAreJobSteps ==
  ASSUME OneRunningWorker, OneRetryWorker, JobsInv,
         NEW w \in Workers, NEW o \in Operations, ClaimJob(w, o) \/ ProcessJob(w, o)
  PROVE  Jobs!JobsNext \/ UNCHANGED Jobs!jobs
<1>1. TypeOK /\ db[o] \in Row /\ db[o].sendJob \in SendJob /\ db \in [Operations -> Row]
  BY DEF JobsInv, TypeOK, Row
<1>2. CASE UNCHANGED <<db, call>>
  <2>1. \A v \in Workers : call'[v] \in {call[v], None}
    BY <1>2
  <2> QED BY <1>1, <1>2, <2>1, JobsUnchanged, CallsEnd
<1>3. CASE ClaimJob(w, o)
  <2>1. db' = [db EXCEPT ![o] = ClaimSendJob(db[o])] /\ call' = call
    BY <1>1, <1>3 DEF ClaimJob
  <2>2. CASE db[o].sendJob.state # "PENDING"
    BY <1>1, <1>2, <2>1, <2>2 DEF ClaimSendJob
  <2>3. CASE db[o].sendJob.state = "PENDING"
    <3> DEFINE row1 == [db[o] EXCEPT !.sendJob.state = "RUNNING"]
    <3>1. db' = [db EXCEPT ![o] = row1]
      BY <2>1, <2>3 DEF ClaimSendJob
    <3>2. row1.sendJob.state = "RUNNING" /\ row1.sendJob.attempt = db[o].sendJob.attempt
      BY <1>1 DEF Row, SendJob
    <3> HIDE DEF row1
    <3>3. /\ jobState' = [x \in Operations |-> IF x \in {o} THEN "RUNNING" ELSE jobState[x]]
          /\ jobState[o] = "PENDING"
      BY <1>1, <2>3, <3>1, <3>2 DEF jobState
    <3>4. jobAttempt' = jobAttempt /\ taken' = taken
      BY <1>1, <2>1, <3>1, <3>2 DEF jobAttempt, taken
    <3>5. Jobs!Claim({o})
      BY <3>3, <3>4 DEF Jobs!Claim, jobState, jobAttempt, taken
    <3>6. \E S \in SUBSET Operations : Jobs!Claim(S)
      BY <3>5
    <3> QED BY <3>6 DEF Jobs!JobsNext
  <2> QED BY <2>2, <2>3
<1>4. CASE ProcessJob(w, o)
  <2>1. CASE db[o].sendJob.state # JobState(w)
    BY <1>2, <1>4, <2>1 DEF ProcessJob
  <2>2. CASE db[o].sendJob.state = JobState(w)
    <3>1. /\ w \notin PendingWorkers /\ call[w] = None /\ db' = db
          /\ call' = [call EXCEPT ![w] = o]
      BY <1>4, <2>2 DEF ProcessJob, Waiting
    <3>2. /\ JobState(w) \in {"RUNNING", "WAITING_RETRY"}
          /\ \A v \in Workers \ PendingWorkers : JobState(v) = JobState(w) => v = w
      BY <3>1, WorkerKindsAreDisjoint DEF JobState, Workers, OneRunningWorker, OneRetryWorker
    <3>3. o \notin taken
      <4>1. \A v \in Workers : call[v] # o
        BY <2>2, <3>1, <3>2, NoneIsNoId DEF JobsInv, CallsMatchJobs
      <4> QED BY <4>1 DEF taken
    <3>4. \A v \in Workers : call'[v] = IF v = w THEN o ELSE call[v]
      BY <3>1 DEF JobsInv, TypeOK
    <3>5. taken' = taken \cup {o}
      BY <3>1, <3>4, NoneIsNoId DEF taken
    <3>6. Jobs!Take(o)
      BY <2>2, <3>1, <3>2, <3>3, <3>5 DEF Jobs!Take, taken
    <3> QED BY <3>6 DEF Jobs!JobsNext
  <2> QED BY <2>1, <2>2
<1> QED BY <1>3, <1>4

\* A call that was answered delivers its job, or leaves no trace.
LEMMA AnswersAreJobSteps ==
  ASSUME JobsInv, NEW w \in Workers, NEW id \in PaymentIds, CallAccepted(w, id)
  PROVE  Jobs!JobsNext \/ UNCHANGED Jobs!jobs
<1>0. PICK o \in Operations : o = call[w]
  BY DEF CallAccepted, JobsInv, TypeOK
<1> DEFINE stored == AcceptsPaymentId(o, id) /\ db[o].sendJob.state \in {"RUNNING", "WAITING_RETRY"}
<1>1. /\ call' = [call EXCEPT ![w] = None] /\ o # None
      /\ db' = [db EXCEPT ![o] = CompleteJob(db[o], id, AcceptsPaymentId(o, id))]
  BY <1>0 DEF CallAccepted, JobsInv, TypeOK
<1>2. /\ o \in taken /\ taken' = taken \ {o}
      /\ \A v \in Workers : call'[v] \in {call[v], None}
  BY <1>0, <1>1, OneCallEnds DEF JobsInv
<1>3. TypeOK /\ db[o] \in Row /\ db[o].sendJob \in SendJob /\ db \in [Operations -> Row]
  BY <1>2 DEF JobsInv, TypeOK, Row
<1>4. CASE ~ stored
  <2>1. db' = db
    BY <1>1, <1>3, <1>4 DEF CompleteJob
  <2> QED BY <1>2, <1>3, <2>1, JobsUnchanged, CallsEnd
<1>5. CASE stored
  <2> DEFINE job == [db[o].sendJob EXCEPT !.state = "DONE", !.nextRetryAt = "null",
                                          !.lastError = "null"]
             row1 == [db[o] EXCEPT !.providerPaymentId = id, !.sendJob = job]
  <2>1. db' = [db EXCEPT ![o] = row1]
    BY <1>1, <1>3, <1>5 DEF CompleteJob, Row
  <2>2. job.state = "DONE" /\ job.attempt = db[o].sendJob.attempt
    BY <1>3 DEF SendJob
  <2> HIDE DEF job
  <2>3. row1.sendJob = job
    BY <1>3 DEF Row
  <2> HIDE DEF row1
  <2>4. /\ jobState' = [jobState EXCEPT ![o] = "DONE"]
        /\ jobState[o] \in {"RUNNING", "WAITING_RETRY"}
    BY <1>2, <1>3, <1>5, <2>1, <2>2, <2>3 DEF jobState
  <2>5. jobAttempt' = jobAttempt
    BY <1>3, <2>1, <2>2, <2>3 DEF jobAttempt
  <2>6. Jobs!Deliver(o)
    BY <1>2, <2>4, <2>5 DEF Jobs!Deliver, jobState, jobAttempt, taken
  <2> QED BY <2>6 DEF Jobs!JobsNext
<1> QED BY <1>4, <1>5

\* A call that failed is counted, or leaves no trace.
LEMMA FailuresAreJobSteps ==
  ASSUME JobsInv, NEW w \in Workers, NEW error \in TextSizes, CallFails(w, error)
  PROVE  Jobs!JobsNext \/ UNCHANGED Jobs!jobs
<1>0. PICK o \in Operations : o = call[w]
  BY DEF CallFails, JobsInv, TypeOK
<1>1. call' = [call EXCEPT ![w] = None] /\ o # None
  BY <1>0 DEF CallFails
<1>2. /\ o \in taken /\ taken' = taken \ {o}
      /\ \A v \in Workers : call'[v] \in {call[v], None}
  BY <1>0, <1>1, OneCallEnds DEF JobsInv
<1>3. /\ TypeOK /\ db[o] \in Row /\ db[o].sendJob \in SendJob
      /\ db[o].sendJob.attempt \in Nat /\ db \in [Operations -> Row]
  BY <1>2 DEF JobsInv, TypeOK, Row, SendJob
<1>4. CASE db' = db
  BY <1>2, <1>3, <1>4, JobsUnchanged, CallsEnd
<1>5. CASE db[o].sendJob.state \notin {"RUNNING", "WAITING_RETRY"}
  <2>1. db' = db
    BY <1>0, <1>3, <1>5 DEF CallFails, MoveToRetry, RecordRetryFailure
  <2> QED BY <1>4, <2>1
<1>6. CASE db[o].sendJob.state \in {"RUNNING", "WAITING_RETRY"}
  <2>1. PlansOrRollsBack(o, error)
    BY <1>0, <1>6, CallFailsPlans DEF PlansOrRollsBack, JobsInv
  <2>2. CASE ~ Schedulable(db[o].sendJob, error)
    BY <1>4, <2>1, <2>2 DEF PlansOrRollsBack
  <2>3. CASE Schedulable(db[o].sendJob, error)
    <3> DEFINE planned == [db[o].sendJob EXCEPT
                             !.state = "WAITING_RETRY", !.attempt = db[o].sendJob.attempt + 1,
                             !.nextRetryAt = "later", !.lastError = "set"]
    <3>1. db' = [db EXCEPT ![o].sendJob = planned]
      BY <2>1, <2>3 DEF PlansOrRollsBack
    <3>2. planned.state = "WAITING_RETRY" /\ planned.attempt = db[o].sendJob.attempt + 1
      BY <1>3 DEF SendJob
    <3> HIDE DEF planned
    <3>3. \A x \in Operations : db'[x].sendJob = IF x = o THEN planned ELSE db[x].sendJob
      BY <1>3, <3>1 DEF Row
    <3>4. /\ jobState' = [jobState EXCEPT ![o] = "WAITING_RETRY"]
          /\ jobState[o] \in {"RUNNING", "WAITING_RETRY"}
      BY <1>2, <1>6, <3>2, <3>3 DEF jobState
    <3>5. jobAttempt' = [jobAttempt EXCEPT ![o] = @ + 1]
      BY <1>2, <3>2, <3>3 DEF jobAttempt
    <3>6. Jobs!Fail(o)
      BY <1>2, <3>4, <3>5 DEF Jobs!Fail, jobState, jobAttempt, taken
    <3> QED BY <3>6 DEF Jobs!JobsNext
  <2> QED BY <2>2, <2>3
<1> QED BY <1>5, <1>6

\* With one worker of each kind, the service implements the lifecycle of a job:
\* claimed before it is taken up, by one worker at a time, an attempt counted
\* for each recorded failure and for nothing else, and DONE for good.
THEOREM ServiceImplementsJobs ==
  ASSUME OneRunningWorker, OneRetryWorker
  PROVE  Spec => ImplementsJobs
<1>1. Init => Jobs!JobsInit /\ CallsMatchJobs /\ OneCallPerOperation
  BY DEF Init, NoRow, NoSendJob, Jobs!JobsInit, CallsMatchJobs, OneCallPerOperation
<1>2. TypeOK /\ RowsOK /\ CallsMatchJobs /\ OneCallPerOperation /\ [Next]_vars
        => CallsMatchJobs' /\ OneCallPerOperation'
  BY CallsStayExclusive
<1>3. TypeOK /\ RowsOK /\ CallsMatchJobs /\ OneCallPerOperation /\ [Next]_vars
        => [Jobs!JobsNext]_(Jobs!jobs)
  <2> SUFFICES ASSUME JobsInv, [Next]_vars
               PROVE  Jobs!JobsNext \/ UNCHANGED Jobs!jobs
    BY DEF JobsInv
  <2>1. CASE \E o \in Operations : CreateOperation(o) \/ SubmitOperation(o) \/ TimePasses(o)
    BY <2>1, HandlersAreJobSteps
  <2>2. ASSUME NEW r \in posted, ReceiveReceipt(r)
        PROVE  Jobs!JobsNext \/ UNCHANGED Jobs!jobs
    <3>1. r.op \in Operations
      BY DEF JobsInv, TypeOK, Receipt
    <3> QED BY <2>2, <3>1, HandlersAreJobSteps
  <2>3. CASE \E w \in Workers, o \in Operations : ClaimJob(w, o) \/ ProcessJob(w, o)
    BY <2>3, TurnsAreJobSteps
  <2>4. CASE \E w \in Workers, id \in PaymentIds : CallAccepted(w, id)
    BY <2>4, AnswersAreJobSteps
  <2>5. CASE \E w \in Workers, error \in TextSizes : CallFails(w, error)
    BY <2>5, FailuresAreJobSteps
  <2>6. CASE \/ \E w \in Workers : FindJobs(w) \/ FindFails(w) \/ JobFails(w) \/ PostPayment(w)
             \/ \E q \in sent, id \in PaymentIds : AcceptPayment(q, id)
             \/ \E r \in Receipts : PostReceipt(r)
             \/ Crash \/ UNCHANGED vars
    <3>1. db' = db
      BY <2>6 DEF FindJobs, FindFails, JobFails, PostPayment, AcceptPayment, PostReceipt,
        Crash, vars
    <3>2. \A w \in Workers : call'[w] \in {call[w], None}
      BY <2>6 DEF FindJobs, FindFails, JobFails, PostPayment, AcceptPayment, PostReceipt,
        Crash, vars, worker, JobsInv, TypeOK
    <3> QED BY <3>1, <3>2, JobsUnchanged, CallsEnd DEF JobsInv
  <2> QED BY <2>1, <2>2, <2>3, <2>4, <2>5, <2>6 DEF Next
<1> QED BY <1>1, <1>2, <1>3, RowsCorrect, PTL DEF Spec, ImplementsJobs, Jobs!JobsSpec
=============================================================================
