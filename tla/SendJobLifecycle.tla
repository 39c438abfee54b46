------------------------- MODULE SendJobLifecycle -------------------------
(***************************************************************************)
(* The way of a SendJob, without rows, batches, messages or a clock (the   *)
(* comment on SendJobState in app/db/models/enums.py, README.md on the     *)
(* three workers): a job is claimed before a worker takes it up to call    *)
(* the provider, one worker has it at a time, an attempt is counted when a *)
(* call has failed and at no other time, and what is DONE is neither taken *)
(* up nor changed again.                                                   *)
(*                                                                         *)
(* To take a job up is to read its row.  The request leaves afterwards,    *)
(* without another look: a receipt may have settled the operation by then. *)
(* So nothing is said here of when a request leaves.                       *)
(*                                                                         *)
(* PaymentService and DeliverySchedule both implement it, so the service   *)
(* with its rows and the schedule with its clock tell one story of a job.  *)
(***************************************************************************)
EXTENDS Naturals

CONSTANT Operations

VARIABLES
  state,    \* SendJob.state of each operation; NONE: not submitted
  attempt,  \* SendJob.attempt
  taken     \* jobs that a worker has read to call the provider, and not let go

jobs == <<state, attempt, taken>>

JobsInit ==
  /\ state = [o \in Operations |-> "NONE"]
  /\ attempt = [o \in Operations |-> 0]
  /\ taken = {}

Submit(o) ==
  /\ state[o] = "NONE"
  /\ state' = [state EXCEPT ![o] = "PENDING"]
  /\ UNCHANGED <<attempt, taken>>

\* PendingWorker claims jobs one by one, or a poll of them at once.
Claim(S) ==
  /\ S # {} /\ \A o \in S : state[o] = "PENDING"
  /\ state' = [o \in Operations |-> IF o \in S THEN "RUNNING" ELSE state[o]]
  /\ UNCHANGED <<attempt, taken>>

\* A worker reads the job and sets about its call.
Take(o) ==
  /\ state[o] \in {"RUNNING", "WAITING_RETRY"}
  /\ o \notin taken
  /\ taken' = taken \cup {o}
  /\ UNCHANGED <<state, attempt>>

\* The provider accepted the payment.
Deliver(o) ==
  /\ o \in taken
  /\ state[o] \in {"RUNNING", "WAITING_RETRY"}
  /\ state' = [state EXCEPT ![o] = "DONE"]
  /\ taken' = taken \ {o}
  /\ UNCHANGED attempt

\* The call failed, and a retry is planned.
Fail(o) ==
  /\ o \in taken
  /\ state[o] \in {"RUNNING", "WAITING_RETRY"}
  /\ state' = [state EXCEPT ![o] = "WAITING_RETRY"]
  /\ attempt' = [attempt EXCEPT ![o] = @ + 1]
  /\ taken' = taken \ {o}

\* Jobs that are let go without a trace: the transaction after the call rolled
\* back, the process died, or a receipt had ended the job meanwhile.
Abandon(S) ==
  /\ S # {} /\ S \subseteq taken
  /\ taken' = taken \ S
  /\ UNCHANGED <<state, attempt>>

\* A receipt settles the operation.
Settle(o) ==
  /\ state[o] \notin {"NONE", "DONE"}
  /\ state' = [state EXCEPT ![o] = "DONE"]
  /\ UNCHANGED <<attempt, taken>>

JobsNext ==
  \/ \E o \in Operations : Submit(o) \/ Take(o) \/ Deliver(o) \/ Fail(o) \/ Settle(o)
  \/ \E S \in SUBSET Operations : Claim(S) \/ Abandon(S)

JobsSpec == JobsInit /\ [][JobsNext]_jobs
=============================================================================
