-------------------------- MODULE ServiceLifespan --------------------------
(***************************************************************************)
(* PaymentService inside the lifespan of its process (app/main.py): it     *)
(* serves until uvicorn has finished the last request and resumes the      *)
(* lifespan; then stop() is called on the three workers, gather awaits     *)
(* their tasks, the HTTP client closes and the process ends.               *)
(*                                                                         *)
(* A worker looks at its stop event between two polls only, and works off  *)
(* what it has found.  gather raises as soon as one task has ended with an *)
(* exception, and the client then closes beside workers that still run:    *)
(* they read on in their batches, but no request leaves any more.          *)
(***************************************************************************)
EXTENDS PaymentService

VARIABLES
  stage,        \* what the lifespan does
  polling,      \* workers whose find query was under way when stop() was called
  interrupted   \* workers that awaited an answer when the client closed

lifespan == <<stage, polling, interrupted>>
processVars == <<db, batch, call, dead, sent, payments, posted, crashes, dbErrors,
                 stage, polling, interrupted>>

Idle(w) == Waiting(w) /\ batch[w] = {}

\* Mutant of MayPoll: the loop is while True.
MayPollAlways(w) == TRUE

\* while not self._stop_event.is_set()
MayPoll(w) == stage = "serving" \/ w \in polling

\* The request of this call, or one before it, has left
MayAwaitAnswer(w) == call[w] # None /\ CreatePaymentRequest(call[w]) \in sent

\* The task of the worker has returned
Finished(w) == stage # "serving" /\ Idle(w) /\ w \notin polling

-----------------------------------------------------------------------------
InitProcess == Init /\ stage = "serving" /\ polling = {} /\ interrupted = {}

\* uvicorn lets requests finish before it resumes the lifespan
Serve(Handler) == stage = "serving" /\ Handler /\ UNCHANGED lifespan

Poll(w) ==
  /\ MayPoll(w)
  /\ FindJobs(w) \/ FindFails(w)
  /\ polling' = polling \ {w}
  /\ UNCHANGED <<stage, interrupted>>

\* client.post of a closed client raises at once: the request stays here, and
\* the call is left to FailCall
CallProvider(w) ==
  /\ stage # "closed"
  /\ PostPayment(w)
  /\ UNCHANGED lifespan

\* A closed client ends the calls in flight with an error, unless the answer
\* was there already
AnswerCall(w, id) ==
  /\ stage = "closed" => w \in interrupted
  /\ CallAccepted(w, id)
  /\ interrupted' = interrupted \ {w}
  /\ UNCHANGED <<stage, polling>>

FailCall(w) ==
  /\ \E error \in TextSizes : CallFails(w, error)
  /\ interrupted' = interrupted \ {w}
  /\ UNCHANGED <<stage, polling>>

FailJob(w) ==
  /\ JobFails(w)
  /\ interrupted' = IF call'[w] = None THEN interrupted \ {w} ELSE interrupted
  /\ UNCHANGED <<stage, polling>>

\* The three stop() of the lifespan's finally.  Of the workers between two jobs
\* some are in a find query, the others in the pause that stop() ends.  (Bound:
\* only a process that may start again is stopped.)
Stop ==
  /\ stage = "serving"
  /\ crashes < MaxCrashes
  /\ stage' = "stopping"
  /\ \E S \in SUBSET {w \in Workers : Idle(w)} : polling' = S
  /\ UNCHANGED <<vars, interrupted>>

\* Mutants of Close: without awaiting the tasks; the calls are kept for the workers.
CloseKeepsCalls ==
  /\ stage = "stopping"
  /\ dead # {} \/ \A w \in Workers : Finished(w)
  /\ stage' = "closed"
  /\ interrupted' = {call[w] : w \in Workers}
  /\ UNCHANGED <<vars, polling>>

CloseAtOnce ==
  /\ stage = "stopping"
  /\ stage' = "closed"
  /\ interrupted' \in SUBSET {w \in Workers : MayAwaitAnswer(w)}
  /\ UNCHANGED <<vars, polling>>

\* gather returns or raises, and the client closes.  Of the workers in a call
\* some await an answer, the others are ahead of their request.
Close ==
  /\ stage = "stopping"
  /\ dead # {} \/ \A w \in Workers : Finished(w)
  /\ stage' = "closed"
  /\ interrupted' \in SUBSET {w \in Workers : MayAwaitAnswer(w)}
  /\ UNCHANGED <<vars, polling>>

\* The process ends, by itself after the close (tasks that still run are
\* cancelled) or killed at any time, and is started again
EndProcess ==
  /\ Crash
  /\ stage' = "serving" /\ polling' = {} /\ interrupted' = {}

-----------------------------------------------------------------------------
NextProcess ==
  \/ \E o \in Operations : Serve(CreateOperation(o)) \/ Serve(SubmitOperation(o))
  \/ \E r \in posted : Serve(ReceiveReceipt(r))
  \/ \E w \in Workers : Poll(w) \/ CallProvider(w) \/ FailCall(w) \/ FailJob(w)
  \/ \E w \in Workers, o \in Operations :
       (ClaimJob(w, o) \/ ProcessJob(w, o)) /\ UNCHANGED lifespan
  \/ \E w \in Workers, id \in PaymentIds : AnswerCall(w, id)
  \/ \E q \in sent, id \in PaymentIds : AcceptPayment(q, id) /\ UNCHANGED lifespan
  \/ \E r \in Receipts : PostReceipt(r) /\ UNCHANGED lifespan
  \/ \E o \in Operations : TimePasses(o) /\ UNCHANGED lifespan
  \/ Stop \/ Close \/ EndProcess

ProcessSpec == InitProcess /\ [][NextProcess]_processVars

\* What the event loop and the HTTP timeouts do during a shutdown: queries and
\* calls end, a batch goes on, gather resumes the lifespan
ShutdownFairness ==
  /\ \A w \in Workers :
       /\ WF_processVars(w \in polling /\ Poll(w))
       /\ WF_processVars(\E o \in Operations :
            (ClaimJob(w, o) \/ ProcessJob(w, o)) /\ UNCHANGED lifespan)
       /\ WF_processVars((\E id \in PaymentIds : AnswerCall(w, id)) \/ FailCall(w))
  /\ WF_processVars(Close)

FairProcessSpec == ProcessSpec /\ ShutdownFairness

-----------------------------------------------------------------------------
(* Properties *)

\* The lifespan and its sets of workers hold values of their types.
LifespanTypeOK ==
  /\ stage \in {"serving", "stopping", "closed"}
  /\ polling \subseteq Workers
  /\ interrupted \subseteq Workers

\* While every task is alive, a stop cuts nothing short: when the client
\* closes, no worker is in a call, none has anything left of a batch, and nobody
\* is about to find more.
StopIsOrderly ==
  stage = "closed" /\ dead = {} =>
    \A w \in Workers : call[w] = None /\ batch[w] = {} /\ w \notin polling

\* A stop takes one batch of each worker at most: it ends, although jobs that
\* always fail keep every poll busy, and whether or not a task is dead.
StopEnds == stage = "stopping" ~> stage # "stopping"
=============================================================================
