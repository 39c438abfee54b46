----------------------- MODULE ServiceLifespanProofs -----------------------
(***************************************************************************)
(* What ServiceLifespan keeps to, for all sets of operations, ids and      *)
(* workers and all bounds: an orderly stop cuts nothing short, and a       *)
(* process that is stopped, closed and restarted takes no step that        *)
(* PaymentService does not, so that what was proved of that holds of it.   *)
(***************************************************************************)
EXTENDS ServiceLifespan, PaymentLifecycleProofs, FiniteSetTheorems

\* Types: the stage and the sets of workers.
LEMMA TypesKept == LifespanTypeOK /\ [NextProcess]_processVars => LifespanTypeOK'
<1> SUFFICES ASSUME LifespanTypeOK, [NextProcess]_processVars PROVE LifespanTypeOK'
  OBVIOUS
<1> USE DEF LifespanTypeOK
<1>1. ASSUME UNCHANGED lifespan PROVE LifespanTypeOK'
  BY <1>1 DEF lifespan
<1>2. ASSUME NEW w \in Workers, Poll(w) PROVE LifespanTypeOK'
  BY <1>2 DEF Poll
<1>3. ASSUME NEW w \in Workers, CallProvider(w) PROVE LifespanTypeOK'
  BY <1>1, <1>3 DEF CallProvider
<1>4. ASSUME NEW w \in Workers, NEW id \in PaymentIds, AnswerCall(w, id) PROVE LifespanTypeOK'
  BY <1>4 DEF AnswerCall
<1>5. ASSUME NEW w \in Workers, FailCall(w) PROVE LifespanTypeOK'
  BY <1>5 DEF FailCall
<1>6. ASSUME NEW w \in Workers, FailJob(w) PROVE LifespanTypeOK'
  BY <1>6 DEF FailJob
<1>7. CASE Stop
  BY <1>7 DEF Stop
<1>8. CASE Close
  BY <1>8 DEF Close
<1>9. CASE EndProcess
  BY <1>9 DEF EndProcess
<1>10. CASE UNCHANGED processVars
  BY <1>10 DEF processVars
<1> QED
  BY <1>1, <1>2, <1>3, <1>4, <1>5, <1>6, <1>7, <1>8, <1>9, <1>10
  DEF NextProcess, Serve

\* LifespanTypeOK: the stage and the sets of workers of the lifespan.
THEOREM LifespanTypeCorrect == ProcessSpec => []LifespanTypeOK
<1>1. InitProcess => LifespanTypeOK
  BY DEF InitProcess, LifespanTypeOK
<1> QED
  BY <1>1, TypesKept, PTL DEF ProcessSpec

-----------------------------------------------------------------------------
(* The orderly stop *)

\* Once every task has returned, no step of a worker is left; and only the end
\* of the process brings a dead task back.
LEMMA OrderlyStopStep ==
  StopIsOrderly /\ [NextProcess]_processVars => StopIsOrderly'
<1> SUFFICES ASSUME StopIsOrderly, [NextProcess]_processVars,
                    stage' = "closed", dead' = {}, NEW v \in Workers
             PROVE  (call[v] = None /\ batch[v] = {} /\ v \notin polling)'
  BY DEF StopIsOrderly
<1>1. CASE UNCHANGED <<batch, call, dead, lifespan>>
  BY <1>1 DEF StopIsOrderly, lifespan
<1>2. CASE stage = "closed" /\ dead = {}
  <2>1. \A w \in Workers : call[w] = None /\ batch[w] = {} /\ w \notin polling
    BY <1>2 DEF StopIsOrderly
  <2>2. UNCHANGED <<batch, call, dead, lifespan>>
    <3>1. ASSUME NEW w \in Workers, Poll(w) PROVE FALSE
      BY <1>2, <2>1, <3>1 DEF Poll, MayPoll
    <3>2. ASSUME NEW w \in Workers, NEW o \in Operations, ClaimJob(w, o) \/ ProcessJob(w, o)
          PROVE  FALSE
      BY <2>1, <3>2 DEF ClaimJob, ProcessJob
    <3>3. ASSUME NEW w \in Workers, NEW id \in PaymentIds, AnswerCall(w, id) PROVE FALSE
      BY <2>1, <3>3 DEF AnswerCall, CallAccepted
    <3>4. ASSUME NEW w \in Workers, CallProvider(w) \/ FailCall(w) \/ FailJob(w) PROVE FALSE
      BY <1>2, <2>1, <3>4 DEF CallProvider, FailCall, FailJob, CallFails, JobFails
    <3>5. ~ Stop /\ ~ Close /\ ~ EndProcess
      BY <1>2 DEF Stop, Close, EndProcess
    <3>6. ASSUME NEW o \in Operations, Serve(CreateOperation(o)) \/ Serve(SubmitOperation(o))
          PROVE  FALSE
      BY <1>2, <3>6 DEF Serve
    <3>7. ASSUME NEW r \in posted, Serve(ReceiveReceipt(r)) PROVE FALSE
      BY <1>2, <3>7 DEF Serve
    <3>8. CASE UNCHANGED processVars
      BY <3>8 DEF processVars, lifespan
    <3> QED
      BY <3>1, <3>2, <3>3, <3>4, <3>5, <3>6, <3>7, <3>8
      DEF NextProcess, AcceptPayment, PostReceipt, TimePasses, worker
  <2> QED
    BY <1>1, <2>2
<1>3. CASE stage = "closed" /\ dead # {}
  <2>1. dead \subseteq dead'
    BY <1>3
    DEF NextProcess, processVars, Serve, CreateOperation, SubmitOperation, ReceiveReceipt,
        Poll, FindJobs, FindFails, FailCall, CallFails, FailJob, JobFails, CallProvider,
        PostPayment, ProcessJob, ClaimJob, AnswerCall, CallAccepted, AcceptPayment,
        PostReceipt, TimePasses, Stop, Close, EndProcess, worker
  <2> QED
    BY <1>3, <2>1
<1>4. CASE stage # "closed"
  <2>1. Close
    BY <1>4
    DEF NextProcess, processVars, lifespan, Serve, Poll, FailCall, FailJob, CallProvider,
        AnswerCall, Stop, EndProcess
  <2> QED
    BY <2>1 DEF Close, Finished, Idle, Waiting, vars
<1> QED
  BY <1>2, <1>3, <1>4

\* StopIsOrderly: while every task is alive, gather returns only when no worker is
\* in a call and every found job has had its turn.
THEOREM StopIsOrderlyAlways == ProcessSpec => []StopIsOrderly
<1>1. InitProcess => StopIsOrderly
  BY DEF InitProcess, StopIsOrderly
<1> QED
  BY <1>1, OrderlyStopStep, PTL DEF ProcessSpec

-----------------------------------------------------------------------------
(* The process implements the service *)

LEMMA ProcessStep == [NextProcess]_processVars => [Next]_vars
<1> SUFFICES ASSUME [NextProcess]_processVars PROVE Next \/ UNCHANGED vars
  OBVIOUS
<1>1. ASSUME NEW o \in Operations,
             Serve(CreateOperation(o)) \/ Serve(SubmitOperation(o)) \/ TimePasses(o)
      PROVE  Next
  BY <1>1 DEF Serve, Next
<1>2. ASSUME NEW r \in posted, Serve(ReceiveReceipt(r)) PROVE Next
  BY <1>2 DEF Serve, Next
<1>3. ASSUME NEW w \in Workers, Poll(w) \/ CallProvider(w) \/ FailJob(w) PROVE Next
  BY <1>3 DEF Poll, CallProvider, FailJob, Next
<1>4. ASSUME NEW w \in Workers, NEW o \in Operations, ClaimJob(w, o) \/ ProcessJob(w, o)
      PROVE  Next
  BY <1>4 DEF Next
<1>5. ASSUME NEW w \in Workers, FailCall(w) PROVE Next
  BY <1>5 DEF FailCall, Next
<1>6. ASSUME NEW w \in Workers, NEW id \in PaymentIds, AnswerCall(w, id) PROVE Next
  BY <1>6 DEF AnswerCall, Next
<1>7. CASE \/ \E q \in sent, id \in PaymentIds : AcceptPayment(q, id)
           \/ \E r \in Receipts : PostReceipt(r)
           \/ EndProcess
  BY <1>7 DEF EndProcess, Next
<1>8. CASE Stop \/ Close \/ UNCHANGED processVars
  BY <1>8 DEF Stop, Close, vars, processVars
<1> QED
  BY <1>1, <1>2, <1>3, <1>4, <1>5, <1>6, <1>7, <1>8 DEF NextProcess

\* Stopped at any stage, closed beside running workers and restarted, the process
\* does nothing that PaymentService does not do: a close is no worse than a crash.
THEOREM ProcessImplementsService == ProcessSpec => Spec
<1>1. InitProcess => Init
  BY DEF InitProcess
<1> QED
  BY <1>1, ProcessStep, PTL DEF ProcessSpec, Spec

\* The rows of a process that is stopped and restarted at any time agree with
\* themselves: job and status, id and delivery, retry metadata, history.
THEOREM ProcessKeepsRows ==
  ProcessSpec => [](/\ JobFollowsStatus /\ DeliveredHasPaymentId
                    /\ RetryMetadata /\ HistoryMatchesStatus)
BY ProcessImplementsService, JobFollowsStatusAlways, DeliveredHasPaymentIdAlways,
   RetryMetadataAlways, HistoryMatchesStatusAlways, PTL

\* No stop undoes anything: not a final status, not an id, not a delivery, not
\* an attempt, not an event; what is final was said by a receipt; and what was
\* sent had been submitted and claimed.
THEOREM ProcessUndoesNothing ==
  ProcessSpec => NothingIsUndone /\ [](FinalOnlyByReceipt /\ IntentBeforeSend)
BY ProcessImplementsService, NothingIsUndoneAlways, FinalOnlyByReceiptAlways,
   IntentBeforeSendAlways, PTL

\* With a consistent provider, stops, closes and restarts lead to no second
\* payment, to no id of another payment, to no event outside the table, and to no
\* late request that did not leave before.
THEOREM ProcessPaysOnce ==
  ASSUME ConsistentProvider
  PROVE  ProcessSpec => /\ [](/\ OnePaymentPerOperation /\ StoredIdIsProviders
                              /\ HistoryFollowsTable)
                        /\ LateRequestsRepeat
BY ProcessImplementsService, OnePaymentPerOperationAlways, StoredIdIsProvidersAlways,
   HistoryFollowsTableAlways, LateRequestsRepeatAlways, PTL

\* With the workers that app/main.py builds, the jobs that a stop lets the
\* workers finish, and those whose request a closed client keeps back, are never
\* worked on by two of them, nor taken up ahead of their time.
THEOREM ProcessCallsInTurn ==
  ASSUME OneRunningWorker, OneRetryWorker
  PROVE  ProcessSpec => []OneCallPerOperation /\ RetryOnlyWhenDue
BY ProcessImplementsService, OneCallPerOperationAlways, RetryOnlyWhenDueAlways, PTL

\* The process implements the lifecycle of a payment: from the lifespan of the
\* process over the service to one charge, its id and its result.
THEOREM ProcessImplementsLifecycle ==
  ASSUME ConsistentProvider
  PROVE  ProcessSpec => ImplementsLifecycle
BY ProcessImplementsService, ServiceImplementsLifecycle, PTL

\* And the lifecycle of a job: not even the jobs that a stop cuts short, or whose
\* request a closed client keeps back, are taken up unclaimed, by two workers at
\* once, or when they are DONE, nor is an attempt of theirs counted without a failure.
THEOREM ProcessImplementsJobs ==
  ASSUME OneRunningWorker, OneRetryWorker
  PROVE  ProcessSpec => ImplementsJobs
BY ProcessImplementsService, ServiceImplementsJobs, PTL

-----------------------------------------------------------------------------
(* A stop winds the workers up *)

\* The steps that a worker can still take by itself once stop() was called: a
\* claim or a call with its answer for each job found, and the poll under way
\* with what it may find.
Left(w) ==
  2 * Cardinality(batch[w])
  + (IF call[w] = None THEN 0 ELSE 1)
  + (IF w \in polling THEN 2 * Cardinality(Operations) + 1 ELSE 0)

WorkerTypes ==
  /\ batch \in [Workers -> SUBSET Operations]
  /\ call \in [Workers -> Operations \cup {None}]

\* A worker whose poll was under way has nothing else under way.
PollersAreIdle ==
  /\ stage = "serving" => polling = {}
  /\ \A w \in polling : batch[w] = {} /\ call[w] = None

WorkerUnchanged(w) ==
  /\ batch'[w] = batch[w]
  /\ call'[w] = call[w]
  /\ w \in polling' <=> w \in polling

LEMMA WorkerTypesAlways == ProcessSpec => []WorkerTypes
<1>1. TypeOK => WorkerTypes
  BY DEF TypeOK, WorkerTypes
<1> QED
  BY <1>1, ProcessImplementsService, TypeCorrect, PTL

\* Numbers of jobs, for the sets of jobs a worker can hold.
LEMMA JobCounts ==
  ASSUME IsFiniteSet(Operations), NEW S \in SUBSET Operations
  PROVE  /\ Cardinality(Operations) \in Nat
         /\ Cardinality(S) \in Nat
         /\ Cardinality(S) <= Cardinality(Operations)
         /\ \A o \in S : Cardinality(S \ {o}) = Cardinality(S) - 1
         /\ Cardinality({}) = 0
         /\ S # {} => Cardinality(S) > 0
<1>1. IsFiniteSet(S) /\ Cardinality(S) <= Cardinality(Operations)
  BY FS_Subset
<1>2. Cardinality(Operations) \in Nat /\ Cardinality(S) \in Nat
  BY <1>1, FS_CardinalityType
<1>3. \A o \in S : Cardinality(S \ {o}) = Cardinality(S) - 1
  BY <1>1, FS_RemoveElement
<1>4. Cardinality({}) = 0 /\ (Cardinality(S) = 0 <=> S = {})
  BY <1>1, FS_EmptySet
<1> QED
  BY <1>1, <1>2, <1>3, <1>4

\* What a step does to the work of one worker after stop() was called: its own
\* steps take from it, and nobody else's step touches it.
LEMMA WorkDone ==
  ASSUME IsFiniteSet(Operations), WorkerTypes, [NextProcess]_processVars,
         stage # "serving", stage' # "serving", NEW w \in Workers
  PROVE  Left(w)' < Left(w) \/ WorkerUnchanged(w)
<1> DEFINE n == Cardinality(Operations)
<1>1. /\ batch[w] \in SUBSET Operations /\ n \in Nat
      /\ Cardinality(batch[w]) \in Nat /\ Cardinality({}) = 0
      /\ \A o \in batch[w] : Cardinality(batch[w] \ {o}) = Cardinality(batch[w]) - 1
      /\ batch[w] # {} => Cardinality(batch[w]) > 0
  BY JobCounts DEF WorkerTypes
<1>2. ASSUME NEW v \in Workers, v # w, UNCHANGED polling,
             \/ FindJobs(v) \/ FindFails(v) \/ JobFails(v)
             \/ \E o \in Operations : ClaimJob(v, o) \/ ProcessJob(v, o)
             \/ \E id \in PaymentIds : CallAccepted(v, id)
             \/ \E error \in TextSizes : CallFails(v, error)
      PROVE  WorkerUnchanged(w)
  <2>1. CASE FindJobs(v) \/ FindFails(v)
    BY <1>2, <2>1 DEF FindJobs, FindFails, WorkerTypes, WorkerUnchanged
  <2>2. CASE JobFails(v)
    BY <1>2, <2>2 DEF JobFails, WorkerTypes, WorkerUnchanged
  <2>3. ASSUME NEW o \in Operations, ClaimJob(v, o) \/ ProcessJob(v, o)
        PROVE  WorkerUnchanged(w)
    BY <1>2, <2>3 DEF ClaimJob, ProcessJob, WorkerTypes, WorkerUnchanged
  <2>4. CASE \/ \E id \in PaymentIds : CallAccepted(v, id)
             \/ \E error \in TextSizes : CallFails(v, error)
    BY <1>2, <2>4 DEF CallAccepted, CallFails, WorkerTypes, WorkerUnchanged
  <2> QED
    BY <1>2, <2>1, <2>2, <2>3, <2>4
<1>3. ASSUME NEW v \in Workers, Poll(v) PROVE Left(w)' < Left(w) \/ WorkerUnchanged(w)
  <2>1. CASE v # w
    BY <1>3, <2>1 DEF Poll, FindJobs, FindFails, WorkerTypes, WorkerUnchanged
  <2>2. CASE v = w
    <3>1. batch'[w] \in SUBSET Operations /\ batch[w] = {} /\ call[w] = None /\ call'[w] = None
      BY <1>1, <1>3, <2>2 DEF Poll, FindJobs, FindFails, FoundJobs, Waiting, WorkerTypes
    <3>2. Cardinality(batch'[w]) \in Nat /\ Cardinality(batch'[w]) <= n
      BY <3>1, JobCounts
    <3>3. w \in polling /\ w \notin polling'
      BY <1>3, <2>2 DEF Poll, MayPoll
    <3> HIDE DEF n
    <3>4. Left(w) = 2 * n + 1
      BY <1>1, <3>1, <3>3 DEF Left, n
    <3>5. Left(w)' = 2 * Cardinality(batch'[w])
      BY <3>1, <3>2, <3>3 DEF Left
    <3> QED
      BY <1>1, <3>2, <3>4, <3>5
  <2> QED
    BY <2>1, <2>2
\* The worker's own step between two polls: one job less, or one call less.
<1>4. ASSUME UNCHANGED polling,
             \/ /\ \E o \in batch[w] : batch'[w] = batch[w] \ {o}
                /\ call[w] = None
             \/ /\ batch[w] # {} /\ batch'[w] = {}
                /\ call'[w] = call[w]
             \/ /\ batch'[w] = batch[w]
                /\ call[w] # None /\ call'[w] = None
      PROVE  Left(w)' < Left(w)
  <2> DEFINE b == Cardinality(batch[w])
             b1 == Cardinality(batch'[w])
             rest == IF w \in polling THEN 2 * n + 1 ELSE 0
  <2>1. rest \in Nat /\ b \in Nat
    BY <1>1
  <2>2. /\ Left(w) = 2 * b + (IF call[w] = None THEN 0 ELSE 1) + rest
        /\ Left(w)' = 2 * b1 + (IF call'[w] = None THEN 0 ELSE 1) + rest
    BY <1>4 DEF Left
  <2>3. \/ b1 = b - 1 /\ call[w] = None
        \/ b > 0 /\ b1 = 0 /\ call'[w] = call[w]
        \/ b1 = b /\ call[w] # None /\ call'[w] = None
    BY <1>1, <1>4
  <2> HIDE DEF b, b1, rest
  <2> QED
    BY <2>1, <2>2, <2>3
<1>5. ASSUME NEW v \in Workers, NEW o \in Operations, UNCHANGED polling,
             ClaimJob(v, o) \/ ProcessJob(v, o)
      PROVE  Left(w)' < Left(w) \/ WorkerUnchanged(w)
  <2>1. CASE v = w
    BY <1>4, <1>5, <2>1 DEF ClaimJob, ProcessJob, Waiting, WorkerTypes
  <2> QED
    BY <1>2, <1>5, <2>1
<1>6. ASSUME NEW v \in Workers, UNCHANGED polling,
             \/ \E id \in PaymentIds : CallAccepted(v, id)
             \/ \E error \in TextSizes : CallFails(v, error)
      PROVE  Left(w)' < Left(w) \/ WorkerUnchanged(w)
  <2>1. CASE v = w
    BY <1>4, <1>6, <2>1 DEF CallAccepted, CallFails, WorkerTypes
  <2> QED
    BY <1>2, <1>6, <2>1
<1>7. ASSUME NEW v \in Workers, UNCHANGED polling, JobFails(v)
      PROVE  Left(w)' < Left(w) \/ WorkerUnchanged(w)
  <2>1. CASE v = w
    BY <1>4, <1>7, <2>1 DEF JobFails, Waiting, WorkerTypes
  <2> QED
    BY <1>2, <1>7, <2>1
<1>8. CASE UNCHANGED <<batch, call, polling>>
  BY <1>8 DEF WorkerUnchanged
<1>9. CASE UNCHANGED processVars
  BY <1>8, <1>9 DEF processVars
<1> DEFINE Goal == Left(w)' < Left(w) \/ WorkerUnchanged(w)
<1> HIDE DEF Goal
<1>10. ASSUME NEW v \in Workers, Poll(v) \/ FailCall(v) \/ FailJob(v) PROVE Goal
  BY <1>3, <1>6, <1>7, <1>10 DEF FailCall, FailJob, Goal
<1>11. ASSUME NEW v \in Workers, NEW o \in Operations,
              (ClaimJob(v, o) \/ ProcessJob(v, o)) /\ UNCHANGED lifespan
       PROVE  Goal
  BY <1>5, <1>11 DEF lifespan, Goal
<1>12. ASSUME NEW v \in Workers, NEW id \in PaymentIds, AnswerCall(v, id) PROVE Goal
  BY <1>6, <1>12 DEF AnswerCall, Goal
<1>13. CASE \/ \E v \in Workers : CallProvider(v)
            \/ \E q \in sent, id \in PaymentIds : AcceptPayment(q, id) /\ UNCHANGED lifespan
            \/ \E r \in Receipts : PostReceipt(r) /\ UNCHANGED lifespan
            \/ \E o \in Operations : TimePasses(o) /\ UNCHANGED lifespan
            \/ Stop \/ Close
  BY <1>8, <1>13 DEF CallProvider, PostPayment, AcceptPayment, PostReceipt, TimePasses, Stop,
    Close, lifespan, worker, vars, Goal
<1>14. Goal
  BY <1>9, <1>10, <1>11, <1>12, <1>13 DEF NextProcess, Serve, EndProcess, Goal
<1> QED
  BY <1>14 DEF Goal

LEMMA PollersStayIdle ==
  ASSUME WorkerTypes, LifespanTypeOK, PollersAreIdle, [NextProcess]_processVars
  PROVE  PollersAreIdle'
<1>1. CASE stage = "serving" /\ stage' = "serving"
  BY <1>1 DEF PollersAreIdle, NextProcess, processVars, lifespan, Serve, Poll, FailCall,
              FailJob, CallProvider, AnswerCall, Stop, Close, EndProcess
<1>2. CASE stage = "serving" /\ stage' # "serving"
  <2>1. Stop
    BY <1>2 DEF NextProcess, processVars, lifespan, Serve, Poll, FailCall, FailJob,
                CallProvider, AnswerCall, Close, EndProcess
  <2> QED
    BY <1>2, <2>1 DEF Stop, Idle, Waiting, PollersAreIdle, vars
<1>3. CASE stage # "serving" /\ stage' = "serving"
  BY <1>3 DEF PollersAreIdle, NextProcess, processVars, lifespan, Serve, Poll, FailCall,
              FailJob, CallProvider, AnswerCall, Stop, Close, EndProcess
<1>4. CASE stage # "serving" /\ stage' # "serving"
  <2>1. SUFFICES ASSUME NEW w \in polling' PROVE batch'[w] = {} /\ call'[w] = None
    BY <1>4 DEF PollersAreIdle
  <2>2. polling' \subseteq polling
    BY <1>4 DEF NextProcess, processVars, lifespan, Serve, Poll, FailCall, FailJob,
                CallProvider, AnswerCall, Stop, Close, EndProcess
  <2>3. batch[w] = {} /\ call[w] = None /\ w \in Workers
    BY <2>2 DEF PollersAreIdle, LifespanTypeOK
  <2>4. ASSUME NEW v \in Workers, Poll(v) PROVE batch'[w] = batch[w] /\ call'[w] = call[w]
    BY <2>1, <2>3, <2>4 DEF Poll, FindJobs, FindFails, WorkerTypes
  <2>5. ASSUME NEW v \in Workers, NEW o \in Operations,
               ClaimJob(v, o) \/ ProcessJob(v, o)
        PROVE  batch'[w] = batch[w] /\ call'[w] = call[w]
    BY <2>3, <2>5 DEF ClaimJob, ProcessJob, WorkerTypes
  <2>6. ASSUME NEW v \in Workers,
               \/ \E id \in PaymentIds : AnswerCall(v, id)
               \/ FailCall(v) \/ FailJob(v)
        PROVE  batch'[w] = batch[w] /\ call'[w] = call[w]
    BY <2>3, <2>6 DEF AnswerCall, CallAccepted, FailCall, CallFails, FailJob, JobFails,
                      WorkerTypes
  <2>7. CASE UNCHANGED <<batch, call>>
    BY <2>3, <2>7
  <2> QED
    BY <1>4, <2>3, <2>4, <2>5, <2>6, <2>7
    DEF NextProcess, processVars, Serve, CallProvider, PostPayment, AcceptPayment, PostReceipt,
        TimePasses, Stop, Close, EndProcess, worker, vars
<1> QED
  BY <1>1, <1>2, <1>3, <1>4

\* A stop ends after a known number of steps of the workers, whatever jobs there
\* are and however their calls end: no worker has more left than one batch of all
\* operations takes, each step of its own leaves it less, and nothing adds to it.
\* (The reason for StopEnds; that the steps are taken is what fairness is for.)
THEOREM StopWindsUp ==
  ASSUME IsFiniteSet(Operations)
  PROVE  ProcessSpec =>
           /\ [](stage # "serving" =>
                   \A w \in Workers : Left(w) \in 0 .. 2 * Cardinality(Operations) + 1)
           /\ [][stage # "serving" /\ stage' # "serving" =>
                   \A w \in Workers : Left(w)' < Left(w) \/ WorkerUnchanged(w)]_processVars
<1>1. InitProcess => PollersAreIdle
  BY DEF InitProcess, PollersAreIdle
<1>2. ProcessSpec => []PollersAreIdle
  BY <1>1, PollersStayIdle, WorkerTypesAlways, LifespanTypeCorrect, PTL DEF ProcessSpec
<1>3. WorkerTypes /\ PollersAreIdle =>
        (stage # "serving" =>
           \A w \in Workers : Left(w) \in 0 .. 2 * Cardinality(Operations) + 1)
  <2>1. SUFFICES ASSUME WorkerTypes, PollersAreIdle, NEW w \in Workers
                 PROVE  Left(w) \in 0 .. 2 * Cardinality(Operations) + 1
    OBVIOUS
  <2> DEFINE n == Cardinality(Operations)
             b == Cardinality(batch[w])
  <2>2. n \in Nat /\ b \in Nat /\ b <= n /\ Cardinality({}) = 0
    BY <2>1, JobCounts DEF WorkerTypes
  <2>3. w \in polling => b = 0 /\ call[w] = None
    BY <2>1, <2>2 DEF PollersAreIdle
  <2>4. Left(w) = 2 * b + (IF call[w] = None THEN 0 ELSE 1)
                        + (IF w \in polling THEN 2 * n + 1 ELSE 0)
    BY DEF Left
  <2> HIDE DEF b, n
  <2>5. Left(w) \in 0 .. 2 * n + 1
    BY <2>2, <2>3, <2>4
  <2> QED
    BY <2>5 DEF n
<1>4. WorkerTypes /\ [NextProcess]_processVars =>
        [stage # "serving" /\ stage' # "serving" =>
           \A w \in Workers : Left(w)' < Left(w) \/ WorkerUnchanged(w)]_processVars
  BY WorkDone
<1> QED
  BY <1>2, <1>3, <1>4, WorkerTypesAlways, PTL DEF ProcessSpec
=============================================================================
