-------------------------- MODULE DeliverySchedule --------------------------
(***************************************************************************)
(* How long a delivery waits: the polls, the batches and the calls of the  *)
(* three workers (app/workers), the provider's slowness and the delays of  *)
(* RetryPolicy, with a clock.                                              *)
(*                                                                         *)
(* Time passes in calls of the provider and in the pauses between polls;   *)
(* queries and transactions take none.  A job has one timer: until its     *)
(* first call, minus the time since its submission; from then on, the time *)
(* until next_retry_at, negative when that is past; of a job that is DONE  *)
(* nothing is asked, and it is 0.  The workers go through their batch in   *)
(* the order of this timer: PendingWorker and RunningWorker by created_at, *)
(* RetryWorker by next_retry_at (ties in any order).                       *)
(*                                                                         *)
(* A call is all of _process_job: the job is read, a connection awaited,   *)
(* the request posted, the answer awaited, the transaction for it run.     *)
(* When in this time the request leaves is not told here.  One life of the *)
(* process is modelled, without the restart that would end a call.         *)
(***************************************************************************)
EXTENDS Integers, FiniteSets

CONSTANTS
  Operations,
  None,
  BaseDelay, MaxDelay, \* of RetryPolicy
  MaxAttempt,          \* last attempt RetryPolicy can schedule (1024 in the code)
  PollInterval,        \* pause between two polls of a worker
  MaxCall,             \* longest a call takes (the timeouts of app/main.py)
  MaxLost,             \* bound: the time a job loses to claims that broke off
  Horizon              \* bound: how late a job of no promise is, is not told apart beyond

Callers == {"running", "retry"}
Workers == {"pending"} \cup Callers

ASSUME OperationsAssumption == IsFiniteSet(Operations) /\ None \notin Operations
ASSUME PolicyAssumption == /\ BaseDelay \in Nat \ {0} /\ MaxDelay \in Nat
                           /\ BaseDelay <= MaxDelay /\ MaxAttempt \in Nat
ASSUME TimesAssumption == /\ PollInterval \in Nat /\ MaxCall \in Nat
                          /\ MaxLost \in Nat /\ Horizon \in Nat

VARIABLES
  state,      \* SendJob.state; NONE: not submitted
  attempt,    \* SendJob.attempt
  timer,      \* see above
  batch,      \* ids a caller has found and not yet had a turn
  call,       \* operation a caller has taken up and not let go, or None
  elapsed,    \* how long that call has lasted
  idle,       \* what is left of the pause before a worker's next poll
  dead,       \* callers whose task ended with an exception
  lost,       \* time a job lost before its first call to claim polls that broke off
  unrecorded  \* jobs for which a caller's transaction has failed

job == <<state, attempt, timer>>
failures == <<dead, lost, unrecorded>>
vars == <<state, attempt, timer, batch, call, elapsed, idle, dead, lost, unrecorded>>

State == {"NONE", "PENDING", "RUNNING", "WAITING_RETRY", "DONE"}

\* The state a caller looks for, and checks again before its call
JobState(w) == IF w = "running" THEN "RUNNING" ELSE "WAITING_RETRY"

\* RetryPolicy.next_retry_at: full jitter below a delay that doubles up to the cap
Delays(n) == {d \in 0..MaxDelay : d <= BaseDelay * 2 ^ (n - 1)}

\* The find queries of RunningWorker and RetryWorker
FoundJobs(w) == {o \in Operations : /\ state[o] = JobState(w)
                                    /\ w = "retry" => timer[o] <= 0}

\* Mutant of IsFirst: RetryWorker does not order its batch.
IsFirstUnordered(w, o) == o \in batch[w]

\* ORDER BY created_at, ORDER BY next_retry_at; where a job that is skipped
\* stands makes no difference
IsFirst(w, o) ==
  /\ o \in batch[w]
  /\ \A p \in batch[w] : state[p] = JobState(w) => timer[o] <= timer[p]

\* A worker whose batch is used up pauses until its next poll
PauseAfter(w, left) == IF left = {} THEN [idle EXCEPT ![w] = PollInterval] ELSE idle

-----------------------------------------------------------------------------
Init ==
  /\ state = [o \in Operations |-> "NONE"]
  /\ attempt = [o \in Operations |-> 0]
  /\ timer = [o \in Operations |-> 0]
  /\ batch = [w \in Callers |-> {}]
  /\ call = [w \in Callers |-> None]
  /\ elapsed = [w \in Callers |-> 0]
  /\ idle = [w \in Workers |-> 0]
  /\ dead = {}
  /\ lost = [o \in Operations |-> 0]
  /\ unrecorded = {}

Submit(o) ==
  /\ state[o] = "NONE"
  /\ state' = [state EXCEPT ![o] = "PENDING"]
  /\ UNCHANGED <<attempt, timer, batch, call, elapsed, idle, failures>>

\* A receipt settles the operation and ends its delivery
ReceiveReceipt(o) ==
  /\ state[o] \notin {"NONE", "DONE"}
  /\ state' = [state EXCEPT ![o] = "DONE"]
  /\ timer' = [timer EXCEPT ![o] = 0]
  /\ UNCHANGED <<attempt, batch, call, elapsed, idle, failures>>

\* PendingWorker: one poll claims the PENDING jobs one after the other, oldest
\* first.  An exception, of the query or of one claim, ends it: the jobs not yet
\* claimed wait for another pause.
ClaimJobs(S) ==
  LET left == {o \in Operations \ S : state[o] = "PENDING"} IN
  /\ idle["pending"] = 0
  /\ \A p \in S : state[p] = "PENDING" /\ \A o \in left : timer[p] <= timer[o]
  /\ \A o \in left : lost[o] + PollInterval <= MaxLost
  /\ state' = [o \in Operations |-> IF o \in S THEN "RUNNING" ELSE state[o]]
  /\ lost' = [o \in Operations |->
       CASE o \in left -> lost[o] + PollInterval
         [] o \notin left /\ state[o] \in {"PENDING", "RUNNING"} -> lost[o]
         [] OTHER -> 0]
  /\ idle' = [idle EXCEPT !["pending"] = PollInterval]
  /\ UNCHANGED <<attempt, timer, batch, call, elapsed, dead, unrecorded>>

FindJobs(w) ==
  /\ w \notin dead
  /\ call[w] = None /\ batch[w] = {} /\ idle[w] = 0
  /\ batch' = [batch EXCEPT ![w] = FoundJobs(w)]
  /\ idle' = PauseAfter(w, FoundJobs(w))
  /\ UNCHANGED <<job, call, elapsed, failures>>

\* The query raises, and the loop of the caller ends with it
FindFails(w) ==
  /\ w \notin dead
  /\ call[w] = None /\ batch[w] = {} /\ idle[w] = 0
  /\ dead' = dead \cup {w}
  /\ UNCHANGED <<job, batch, call, elapsed, idle, lost, unrecorded>>

\* Mutant of ProcessJob: the job is not read again.
ProcessJobUnread(w, o) ==
  /\ call[w] = None
  /\ IsFirst(w, o)
  /\ batch' = [batch EXCEPT ![w] = @ \ {o}]
  /\ call' = [call EXCEPT ![w] = o]
  /\ UNCHANGED <<job, elapsed, idle, failures>>

\* The next id of the batch: its job is read again, and taken up or skipped
ProcessJob(w, o) ==
  /\ call[w] = None
  /\ IsFirst(w, o)
  /\ batch' = [batch EXCEPT ![w] = @ \ {o}]
  /\ IF state[o] = JobState(w)
     THEN /\ call' = [call EXCEPT ![w] = o]
          /\ UNCHANGED idle
     ELSE /\ idle' = PauseAfter(w, batch[w] \ {o})
          /\ UNCHANGED call
  /\ UNCHANGED <<job, elapsed, failures>>

\* The read raises instead: the worker goes on with its batch, and the job waits
\* for a later poll
ReadFails(w, o) ==
  /\ call[w] = None
  /\ IsFirst(w, o)
  /\ batch' = [batch EXCEPT ![w] = @ \ {o}]
  /\ idle' = PauseAfter(w, batch[w] \ {o})
  /\ unrecorded' = unrecorded \cup {o}
  /\ UNCHANGED <<job, call, elapsed, dead, lost>>

\* The call is over, and so is the transaction for it
EndCall(w) ==
  /\ call[w] # None
  /\ call' = [call EXCEPT ![w] = None]
  /\ elapsed' = [elapsed EXCEPT ![w] = 0]
  /\ idle' = PauseAfter(w, batch[w])

\* 202 with an id: complete_job
CallAccepted(w) ==
  /\ EndCall(w)
  /\ state' = [state EXCEPT ![call[w]] = "DONE"]
  /\ timer' = [timer EXCEPT ![call[w]] = 0]
  /\ UNCHANGED <<attempt, batch, failures>>

\* Anything else: move_to_retry, record_retry_failure; a job that a receipt
\* ended stays ended
CallFails(w) ==
  /\ EndCall(w)
  /\ LET o == call[w] IN
     IF state[o] = JobState(w)
     THEN /\ attempt[o] < MaxAttempt
          /\ state' = [state EXCEPT ![o] = "WAITING_RETRY"]
          /\ attempt' = [attempt EXCEPT ![o] = @ + 1]
          /\ \E d \in Delays(attempt[o] + 1) : timer' = [timer EXCEPT ![o] = d]
     ELSE UNCHANGED job
  /\ UNCHANGED <<batch, failures>>

\* Mutant of CallNotRecorded: the exception ends the loop over the batch.
CallNotRecordedEndsBatch(w) ==
  /\ call[w] # None
  /\ call' = [call EXCEPT ![w] = None]
  /\ elapsed' = [elapsed EXCEPT ![w] = 0]
  /\ batch' = [batch EXCEPT ![w] = {}]
  /\ idle' = PauseAfter(w, {})
  /\ unrecorded' = unrecorded \cup {call[w]}
  /\ UNCHANGED <<job, dead, lost>>

\* The transaction after the call raises (a refused id, a text that is too
\* long, an attempt past MaxAttempt, the database): the row stays as it was, and
\* the worker goes on with its batch
CallNotRecorded(w) ==
  /\ EndCall(w)
  /\ unrecorded' = unrecorded \cup {call[w]}
  /\ UNCHANGED <<job, batch, dead, lost>>

\* Mutant of CanWait: an HTTP client without timeouts.
CanWaitForCall(w) ==
  IF w \in Callers /\ call[w] # None THEN TRUE
  ELSE \/ w \in dead
       \/ idle[w] > 0 /\ (w \in Callers => batch[w] = {})

\* One unit of time, when no worker has anything to do at once
CanWait(w) ==
  IF w \in Callers /\ call[w] # None THEN elapsed[w] < MaxCall
  ELSE \/ w \in dead
       \/ idle[w] > 0 /\ (w \in Callers => batch[w] = {})

\* Nothing is promised of a job that is not recorded, or whose caller is dead
Unpromised(o) ==
  o \in unrecorded \/ \E w \in dead : state[o] = JobState(w)

Tick ==
  /\ \A w \in Workers : CanWait(w)
  /\ timer' = [o \in Operations |->
       IF \/ state[o] \in {"NONE", "DONE"}
          \/ Unpromised(o) /\ timer[o] <= -Horizon
       THEN timer[o] ELSE timer[o] - 1]
  /\ elapsed' = [w \in Callers |-> IF call[w] = None THEN 0 ELSE elapsed[w] + 1]
  /\ idle' = [w \in Workers |-> IF idle[w] > 0 THEN idle[w] - 1 ELSE 0]
  /\ UNCHANGED <<state, attempt, batch, call, failures>>

-----------------------------------------------------------------------------
Next ==
  \/ \E o \in Operations : Submit(o) \/ ReceiveReceipt(o)
  \/ \E S \in SUBSET Operations : ClaimJobs(S)
  \/ \E w \in Callers : FindJobs(w) \/ FindFails(w)
  \/ \E w \in Callers, o \in Operations : ProcessJob(w, o) \/ ReadFails(w, o)
  \/ \E w \in Callers : CallAccepted(w) \/ CallFails(w) \/ CallNotRecorded(w)
  \/ Tick

Spec == Init /\ [][Next]_vars

-----------------------------------------------------------------------------
\* The variables hold values of their types; no call outlasts the timeouts.
TypeOK ==
  /\ state \in [Operations -> State]
  /\ attempt \in [Operations -> Nat]
  /\ timer \in [Operations -> Int]
  /\ batch \in [Callers -> SUBSET Operations]
  /\ call \in [Callers -> Operations \cup {None}]
  /\ elapsed \in [Callers -> 0..MaxCall]
  /\ idle \in [Workers -> 0..PollInterval]
  /\ dead \subseteq Callers
  /\ lost \in [Operations -> 0..MaxLost]
  /\ unrecorded \subseteq Operations

\* The longest a caller is busy with other jobs before the turn of a job that
\* is ready: one call of each, and one more of each that is not recorded.
Backlog == PollInterval + (Cardinality(Operations) - 1 + Cardinality(unrecorded)) * MaxCall

\* However slow the provider is for others, a submitted job is claimed at
\* PendingWorker's next poll, one pause later for each poll that broke off before
\* its turn, and taken up for its first call after at most one call of each other
\* job and one more of each job whose transaction failed.  (While RunningWorker lives.)
FirstCallInTime ==
  \A o \in Operations \ unrecorded :
    /\ state[o] = "PENDING" => -timer[o] <= PollInterval + lost[o]
    /\ state[o] = "RUNNING" /\ call["running"] # o /\ "running" \notin dead =>
         -timer[o] <= PollInterval + lost[o] + Backlog

\* A retry that is due is taken up after at most one call of each other job and
\* one more of each whose transaction failed: what is rescheduled meanwhile queues
\* behind it, and a job whose transactions always fail takes its turn and starves
\* nobody.  (While RetryWorker lives.)
RetryInTime ==
  \A o \in Operations \ unrecorded :
    state[o] = "WAITING_RETRY" /\ call["retry"] # o /\ "retry" \notin dead =>
      -timer[o] <= Backlog

\* The jobs and calls of this module, as the lifecycle of a job sees them.
Jobs == INSTANCE SendJobLifecycle WITH
  taken <- {call[w] : w \in Callers} \ {None}

\* With a clock and an order of the batches a job goes the same way as in
\* PaymentService: whatever is late, it is taken up by one worker at a time, and
\* neither before its claim nor when it is DONE.
ImplementsJobs == Jobs!JobsSpec
=============================================================================
