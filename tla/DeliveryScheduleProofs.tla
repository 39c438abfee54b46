----------------------- MODULE DeliveryScheduleProofs -----------------------
(***************************************************************************)
(* No job waits longer than FirstCallInTime and RetryInTime say, for any   *)
(* number of operations and any times.                                     *)
(*                                                                         *)
(* The argument is a budget: what a ready job has waited, plus what is     *)
(* left of the call and the pause it waits for, plus one MaxCall for each  *)
(* turn other jobs may still take before it, never exceeds the bound.      *)
(*                                                                         *)
(* Besides: no retry is early, and the schedule implements the lifecycle   *)
(* of a job.                                                               *)
(***************************************************************************)
EXTENDS DeliverySchedule, FiniteSetTheorems, TLAPS

-----------------------------------------------------------------------------
(* The budget *)

\* What is left of the call a worker awaits
Rest(w) == IF call[w] = None THEN 0 ELSE MaxCall - elapsed[w]

\* What is left, or still to come, of the pause before its next poll
Pause(w) == IF call[w] = None /\ batch[w] = {} THEN idle[w] ELSE PollInterval

\* Whether p, found by the next poll, may stand before o in its batch
MayPrecede(w, p, o) ==
  IF w = "running" THEN state[p] \in {"NONE", "PENDING", "RUNNING"}
                   ELSE state[p] = "WAITING_RETRY" /\ timer[p] <= timer[o]

\* In o's own batch, the jobs before it, but for those that will be skipped
Before(w, o) == {p \in batch[w] \ {o} : state[p] = JobState(w) /\ timer[p] <= timer[o]}

\* Outside o's batch, the jobs that have a turn now or may have one before o,
\* and of these the ones that may have both
Ahead(w, o) == {p \in Operations \ {o, call[w]} : p \in batch[w] \/ MayPrecede(w, p, o)}
Again(w) == unrecorded \cap (batch[w] \cup {call[w]})

Turns(w, o) == IF o \in batch[w] THEN Cardinality(Before(w, o))
               ELSE Cardinality(Ahead(w, o)) + Cardinality(Again(w))

Spent(w, o) == -timer[o] + Rest(w) + (IF o \in batch[w] THEN 0 ELSE Pause(w))

\* A first call also waits for PendingWorker, and for its polls that broke off
Extra(w, o) == IF w = "running" THEN PollInterval + lost[o] ELSE 0

WithinBudget(w, o) == Spent(w, o) + Turns(w, o) * MaxCall <= Extra(w, o) + Backlog

Ready(w, o) ==
  w \notin dead /\ o \notin unrecorded /\ state[o] = JobState(w) /\ call[w] # o

OnTime == \A w \in Callers, o \in Operations : Ready(w, o) => WithinBudget(w, o)

\* What a caller found or has taken up is in its state, or was ended
Theirs(w) == \A p \in batch[w] : state[p] \in {JobState(w), "DONE"}

\* And a job that is taken up has left the batch
CallsMatch ==
  \A w \in Callers : /\ call[w] \notin batch[w]
                     /\ call[w] # None => state[call[w]] \in {JobState(w), "DONE"}
                     /\ Theirs(w)

\* PendingWorker's pause bounds the age of what it has not claimed
ClaimsOnTime ==
  \A o \in Operations :
    /\ state[o] = "NONE" => timer[o] = 0 /\ o \notin unrecorded
    /\ state[o] = "PENDING" => /\ -timer[o] + idle["pending"] <= PollInterval + lost[o]
                               /\ o \notin unrecorded

ScheduleInv == TypeOK /\ CallsMatch /\ ClaimsOnTime /\ OnTime

-----------------------------------------------------------------------------
(* Counting *)

\* Subsets of the operations are finite, and smaller ones have fewer elements.
LEMMA Counts ==
  ASSUME NEW S \in SUBSET Operations, NEW T \in SUBSET S
  PROVE  /\ IsFiniteSet(S) /\ IsFiniteSet(T)
         /\ Cardinality(S) \in Nat /\ Cardinality(T) \in Nat
         /\ Cardinality(T) <= Cardinality(S)
<1>1. IsFiniteSet(S)
  BY FS_Subset, OperationsAssumption
<1>2. IsFiniteSet(T) /\ Cardinality(T) <= Cardinality(S)
  BY <1>1, FS_Subset
<1> QED
  BY <1>1, <1>2, FS_CardinalityType

\* A call that is not o's and the jobs besides it leave room for o.
LEMMA OthersCount ==
  ASSUME NEW o \in Operations, NEW c \in Operations \cup {None}, c # o,
         NEW S \in SUBSET (Operations \ {o, c})
  PROVE  Cardinality(S) + (IF c = None THEN 0 ELSE 1) <= Cardinality(Operations) - 1
<1>1. /\ IsFiniteSet(Operations \ {o})
      /\ Cardinality(Operations \ {o}) = Cardinality(Operations) - 1
  BY FS_RemoveElement, OperationsAssumption
<1>2. Cardinality(Operations) \in Nat
  BY FS_CardinalityType, OperationsAssumption
<1>3. CASE c = None
  <2>1. S \in SUBSET (Operations \ {o})
    OBVIOUS
  <2> QED
    BY <1>1, <1>2, <1>3, <2>1, Counts
<1>4. CASE c # None
  <2>1. c \in Operations \ {o}
    BY <1>4
  <2> DEFINE X == Operations \ {o}
  <2>2. Cardinality(X \ {c}) = Cardinality(Operations) - 2
    <3>1. Cardinality(X \ {c}) = Cardinality(X) - 1
      BY <1>1, <2>1, FS_RemoveElement
    <3> QED
      BY <1>1, <1>2, <3>1
  <2>3. S \in SUBSET ((Operations \ {o}) \ {c})
    OBVIOUS
  <2>4. Cardinality(S) <= Cardinality(X \ {c})
    BY <2>3, Counts
  <2>5. Cardinality(S) \in Nat
    BY Counts
  <2> QED
    BY <1>2, <1>4, <2>2, <2>4, <2>5
<1> QED
  BY <1>3, <1>4

\* One more unrecorded job adds at most itself to the ones that come again.
LEMMA AgainGrows ==
  ASSUME NEW U \in SUBSET Operations, NEW p \in Operations, NEW X
  PROVE  Cardinality((U \cup {p}) \cap X) + Cardinality(U)
           <= Cardinality(U \cap X) + Cardinality(U \cup {p})
<1>1. CASE p \in U
  <2>1. U \cup {p} = U
    BY <1>1
  <2>2. Cardinality(U) \in Nat /\ Cardinality(U \cap X) \in Nat
    BY Counts
  <2> QED
    BY <2>1, <2>2
<1>2. CASE p \notin U
  <2>1. IsFiniteSet(U) /\ Cardinality(U) \in Nat
    BY Counts
  <2>2. Cardinality(U \cup {p}) = Cardinality(U) + 1
    BY <1>2, <2>1, FS_AddElement
  <2>3. IsFiniteSet(U \cap X) /\ Cardinality(U \cap X) \in Nat
    BY Counts
  <2> DEFINE Y == U \cap X
  <2>4. Cardinality(Y \cup {p}) <= Cardinality(Y) + 1
    <3>1. /\ IsFiniteSet(Y) /\ Cardinality(Y) \in Nat
          /\ p \notin Y
      BY <1>2, <2>3
    <3> HIDE DEF Y
    <3>2. Cardinality(Y \cup {p}) = Cardinality(Y) + 1
      BY <3>1, FS_AddElement
    <3> QED
      BY <3>1, <3>2
  <2>5. (U \cap X) \cup {p} \in SUBSET Operations
    OBVIOUS
  <2>6. (U \cup {p}) \cap X \in SUBSET ((U \cap X) \cup {p})
    OBVIOUS
  <2>7. /\ Cardinality((U \cup {p}) \cap X) \in Nat
        /\ Cardinality((U \cup {p}) \cap X) <= Cardinality((U \cap X) \cup {p})
        /\ Cardinality((U \cap X) \cup {p}) \in Nat
    BY <2>5, <2>6, Counts
  <2> QED
    BY <2>1, <2>2, <2>3, <2>4, <2>7
<1> QED
  BY <1>1, <1>2

\* Products with the length of a call
LEMMA Products ==
  ASSUME NEW a \in Int, NEW b \in Int
  PROVE  /\ a * MaxCall \in Int
         /\ (a + b) * MaxCall = a * MaxCall + b * MaxCall
         /\ (a - b) * MaxCall = a * MaxCall - b * MaxCall
         /\ a <= b => a * MaxCall <= b * MaxCall
<1>1. MaxCall \in Nat
  BY TimesAssumption
<1>2. ASSUME a <= b PROVE a * MaxCall <= b * MaxCall
  <2>1. (b - a) \in Nat
    BY <1>2
  <2>2. (b - a) * MaxCall >= 0
    BY <2>1, <1>1
  <2> QED
    BY <2>2, <1>1
<1> QED
  BY <1>1, <1>2

\* A step may spend x calls more when x turns fewer are left, or as many more
\* as there are new unrecorded jobs.
LEMMA BudgetStep ==
  ASSUME NEW s \in Int, NEW s2 \in Int, NEW k \in Int, NEW k2 \in Int,
         NEW r \in Int, NEW r2 \in Int, NEW x \in Int, NEW c \in Int, NEW n \in Int,
         s + k * MaxCall <= c + (n + r) * MaxCall,
         s2 <= s + x * MaxCall,
         k2 + x + r <= k + r2
  PROVE  s2 + k2 * MaxCall <= c + (n + r2) * MaxCall
<1>1. (k2 + x + r) * MaxCall <= (k + r2) * MaxCall
  BY Products
<1>2. (k2 + x + r) * MaxCall = k2 * MaxCall + x * MaxCall + r * MaxCall
  BY Products
<1>3. (k + r2) * MaxCall = k * MaxCall + r2 * MaxCall
  BY Products
<1>4. /\ (n + r) * MaxCall = n * MaxCall + r * MaxCall
      /\ (n + r2) * MaxCall = n * MaxCall + r2 * MaxCall
  BY Products
<1>5. /\ k2 * MaxCall \in Int /\ x * MaxCall \in Int /\ r * MaxCall \in Int
      /\ k * MaxCall \in Int /\ r2 * MaxCall \in Int /\ n * MaxCall \in Int
  BY Products
<1> QED
  BY <1>1, <1>2, <1>3, <1>4, <1>5
-----------------------------------------------------------------------------
(* Types, calls and claims *)

LEMMA TypeOKInit == Init => TypeOK
BY OperationsAssumption, TimesAssumption, SMT DEF Init, TypeOK, State, Callers, Workers

\* A pause after a batch is a pause.
LEMMA PauseAfterType ==
  ASSUME TypeOK, NEW w \in Workers, NEW left
  PROVE  PauseAfter(w, left) \in [Workers -> 0..PollInterval]
BY TimesAssumption DEF TypeOK, PauseAfter

LEMMA EndCallTypes ==
  ASSUME TypeOK, NEW w \in Callers, EndCall(w)
  PROVE  /\ call' \in [Callers -> Operations \cup {None}]
         /\ elapsed' \in [Callers -> 0..MaxCall]
         /\ idle' \in [Workers -> 0..PollInterval]
         /\ call[w] \in Operations
<1>1. w \in Workers
  BY DEF Workers
<1> QED
  BY <1>1, PauseAfterType, TimesAssumption DEF TypeOK, EndCall

LEMMA TypeOKStep == TypeOK /\ [Next]_vars => TypeOK'
<1> SUFFICES ASSUME TypeOK, [Next]_vars PROVE TypeOK'
  OBVIOUS
<1> USE DEF TypeOK, failures
<1>1. ASSUME NEW o \in Operations, Submit(o) PROVE TypeOK'
  BY <1>1 DEF Submit, State
<1>2. ASSUME NEW o \in Operations, ReceiveReceipt(o) PROVE TypeOK'
  BY <1>2 DEF ReceiveReceipt, State
<1>3. ASSUME NEW S \in SUBSET Operations, ClaimJobs(S) PROVE TypeOK'
  <2>1. lost' \in [Operations -> 0..MaxLost]
    BY <1>3, TimesAssumption DEF ClaimJobs
  <2>2. state' \in [Operations -> State] /\ idle' \in [Workers -> 0..PollInterval]
    BY <1>3, TimesAssumption DEF ClaimJobs, State, Workers
  <2> QED
    BY <1>3, <2>1, <2>2 DEF ClaimJobs
<1>4. ASSUME NEW w \in Callers, FindJobs(w) PROVE TypeOK'
  <2>1. w \in Workers
    BY DEF Workers
  <2>2. idle' \in [Workers -> 0..PollInterval]
    BY <1>4, <2>1, PauseAfterType DEF FindJobs
  <2>3. FoundJobs(w) \in SUBSET Operations
    BY DEF FoundJobs
  <2> QED
    BY <1>4, <2>2, <2>3 DEF FindJobs, job
<1>5. ASSUME NEW w \in Callers, NEW o \in Operations, ProcessJob(w, o) PROVE TypeOK'
  <2>1. w \in Workers
    BY DEF Workers
  <2>2. idle' \in [Workers -> 0..PollInterval]
    BY <1>5, <2>1, PauseAfterType DEF ProcessJob
  <2> QED
    BY <1>5, <2>2 DEF ProcessJob, job
<1>6. ASSUME NEW w \in Callers, CallAccepted(w) PROVE TypeOK'
  BY <1>6, EndCallTypes DEF CallAccepted, State
<1>7. ASSUME NEW w \in Callers, CallFails(w) PROVE TypeOK'
  <2>1. /\ EndCall(w)
        /\ UNCHANGED <<batch, dead, lost, unrecorded>>
    BY <1>7 DEF CallFails
  <2>2. /\ state' \in [Operations -> State]
        /\ attempt' \in [Operations -> Nat]
        /\ timer' \in [Operations -> Int]
    <3>1. CASE state[call[w]] = JobState(w)
      BY <1>7, <2>1, <3>1, EndCallTypes DEF CallFails, State, Delays
    <3>2. CASE state[call[w]] # JobState(w)
      BY <1>7, <3>2 DEF CallFails, job
    <3> QED
      BY <3>1, <3>2
  <2> QED
    BY <2>1, <2>2, EndCallTypes
<1>8. ASSUME NEW w \in Callers, CallNotRecorded(w) PROVE TypeOK'
  BY <1>8, EndCallTypes DEF CallNotRecorded, job
<1>9. CASE Tick
  <2>1. timer' \in [Operations -> Int]
    BY <1>9 DEF Tick
  <2>2. elapsed' \in [Callers -> 0..MaxCall]
    BY <1>9, TimesAssumption DEF Tick, CanWait, Workers, Callers
  <2>3. idle' \in [Workers -> 0..PollInterval]
    BY <1>9, TimesAssumption DEF Tick
  <2> QED
    BY <1>9, <2>1, <2>2, <2>3 DEF Tick
<1>10. CASE UNCHANGED vars
  BY <1>10 DEF vars
<1>11. ASSUME NEW w \in Callers, FindFails(w) PROVE TypeOK'
  BY <1>11 DEF FindFails, job
<1>12. ASSUME NEW w \in Callers, NEW o \in Operations, ReadFails(w, o) PROVE TypeOK'
  <2>1. idle' \in [Workers -> 0..PollInterval]
    BY <1>12, PauseAfterType DEF ReadFails, Workers
  <2> QED
    BY <1>12, <2>1 DEF ReadFails, job
<1> QED
  BY <1>1, <1>2, <1>3, <1>4, <1>5, <1>6, <1>7, <1>8, <1>9, <1>10, <1>11, <1>12 DEF Next

\* CallsMatch, worker by worker
LEMMA CallsMatchStep == TypeOK /\ CallsMatch /\ [Next]_vars => CallsMatch'
<1> SUFFICES ASSUME TypeOK, CallsMatch, [Next]_vars, NEW w \in Callers
             PROVE  /\ call'[w] \notin batch'[w]
                    /\ call'[w] # None => state'[call'[w]] \in {JobState(w), "DONE"}
                    /\ \A p \in batch'[w] : state'[p] \in {JobState(w), "DONE"}
  BY DEF CallsMatch, Theirs, JobState
<1> DEFINE Matches == /\ call'[w] \notin batch'[w]
                      /\ call'[w] # None => state'[call'[w]] \in {JobState(w), "DONE"}
                      /\ \A p \in batch'[w] : state'[p] \in {JobState(w), "DONE"}
<1>0. /\ call[w] \notin batch[w]
      /\ call[w] # None => state[call[w]] \in {JobState(w), "DONE"}
      /\ \A p \in batch[w] : state[p] \in {JobState(w), "DONE"}
  BY DEF CallsMatch, Theirs
<1>a. /\ None \notin Operations
      /\ JobState(w) \in {"RUNNING", "WAITING_RETRY"}
      /\ call[w] \in Operations \cup {None} /\ batch[w] \in SUBSET Operations
  BY OperationsAssumption DEF JobState, TypeOK
<1>1. ASSUME NEW o \in Operations, Submit(o) PROVE Matches
  BY <1>0, <1>a, <1>1 DEF Submit, TypeOK
<1>2. ASSUME NEW o \in Operations, ReceiveReceipt(o) PROVE Matches
  BY <1>0, <1>a, <1>2 DEF ReceiveReceipt, TypeOK
<1>3. ASSUME NEW S \in SUBSET Operations, ClaimJobs(S) PROVE Matches
  <2>1. /\ batch' = batch /\ call' = call
        /\ \A p \in Operations : state[p] # "PENDING" => state'[p] = state[p]
    BY <1>3 DEF ClaimJobs
  <2> QED
    BY <1>0, <1>a, <2>1
<1>4. ASSUME NEW v \in Callers, FindJobs(v) PROVE Matches
  <2>1. FoundJobs(v) \in SUBSET Operations /\ \A p \in FoundJobs(v) : state[p] = JobState(v)
    BY DEF FoundJobs
  <2> QED
    BY <1>0, <1>a, <1>4, <2>1 DEF FindJobs, TypeOK, job
<1>5. ASSUME NEW v \in Callers, NEW o \in Operations, ProcessJob(v, o) PROVE Matches
  <2>1. CASE v # w
    BY <1>0, <1>a, <1>5, <2>1 DEF ProcessJob, TypeOK, job
  <2>2. CASE v = w /\ state[o] = JobState(w)
    BY <1>0, <1>a, <1>5, <2>2 DEF ProcessJob, TypeOK, job
  <2>3. CASE v = w /\ state[o] # JobState(w)
    BY <1>0, <1>a, <1>5, <2>3 DEF ProcessJob, TypeOK, job
  <2> QED
    BY <2>1, <2>2, <2>3
<1>6. ASSUME NEW v \in Callers, EndCall(v), UNCHANGED batch,
             \A p \in Operations : \/ state'[p] = state[p]
                                   \/ p = call[v] /\ state'[p] = "DONE"
                                   \/ /\ p = call[v] /\ state[p] = JobState(v)
                                      /\ state'[p] = "WAITING_RETRY"
      PROVE  Matches
  <2>1. CASE v = w
    BY <1>0, <1>a, <1>6, <2>1 DEF EndCall, TypeOK
  <2>2. CASE v # w
    <3>1. call'[w] = call[w] /\ batch'[w] = batch[w]
      BY <1>6, <2>2 DEF EndCall, TypeOK
    <3>2. \A p \in Operations :
             state[p] \in {JobState(w), "DONE"} => state'[p] \in {JobState(w), "DONE"}
      BY <1>6, <2>2 DEF JobState, Callers
    <3> QED
      BY <1>0, <1>a, <3>1, <3>2
  <2> QED
    BY <2>1, <2>2
<1>7. ASSUME NEW v \in Callers, CallAccepted(v) PROVE Matches
  <2>1. EndCall(v) /\ UNCHANGED batch
    BY <1>7 DEF CallAccepted
  <2>2. \A p \in Operations : \/ state'[p] = state[p]
                              \/ p = call[v] /\ state'[p] = "DONE"
    BY <1>7 DEF CallAccepted, TypeOK
  <2> QED
    BY <1>6, <2>1, <2>2
<1>8. ASSUME NEW v \in Callers, CallFails(v) PROVE Matches
  <2>1. EndCall(v) /\ UNCHANGED batch
    BY <1>8 DEF CallFails
  <2>2. \A p \in Operations : \/ state'[p] = state[p]
                              \/ /\ p = call[v] /\ state[p] = JobState(v)
                                 /\ state'[p] = "WAITING_RETRY"
    <3>1. CASE state[call[v]] = JobState(v)
      BY <1>8, <3>1 DEF CallFails, TypeOK
    <3>2. CASE state[call[v]] # JobState(v)
      BY <1>8, <3>2 DEF CallFails, TypeOK, job
    <3> QED
      BY <3>1, <3>2
  <2> QED
    BY <1>6, <2>1, <2>2
<1>9. ASSUME NEW v \in Callers, CallNotRecorded(v) PROVE Matches
  <2>1. EndCall(v) /\ UNCHANGED batch /\ UNCHANGED state
    BY <1>9 DEF CallNotRecorded, job
  <2> QED
    BY <1>6, <2>1
<1>10. CASE Tick
  BY <1>0, <1>10 DEF Tick
<1>11. CASE UNCHANGED vars
  BY <1>0, <1>11 DEF vars
<1>12. ASSUME NEW v \in Callers, FindFails(v) PROVE Matches
  BY <1>0, <1>12 DEF FindFails, job
<1>13. ASSUME NEW v \in Callers, NEW o \in Operations, ReadFails(v, o) PROVE Matches
  <2>1. batch'[w] \subseteq batch[w] /\ call' = call /\ state' = state
    BY <1>13 DEF ReadFails, TypeOK, job
  <2> QED
    BY <1>0, <2>1
<1> QED
  BY <1>1, <1>2, <1>3, <1>4, <1>5, <1>7, <1>8, <1>9, <1>10, <1>11, <1>12, <1>13 DEF Next

\* ClaimsOnTime, job by job
LEMMA ClaimsOnTimeStep ==
  TypeOK /\ CallsMatch /\ ClaimsOnTime /\ [Next]_vars => ClaimsOnTime'
<1> SUFFICES ASSUME TypeOK, CallsMatch, ClaimsOnTime, [Next]_vars, NEW o \in Operations
             PROVE  /\ state'[o] = "NONE" => timer'[o] = 0 /\ o \notin unrecorded'
                    /\ state'[o] = "PENDING" =>
                         /\ -timer'[o] + idle'["pending"] <= PollInterval + lost'[o]
                         /\ o \notin unrecorded'
  BY DEF ClaimsOnTime
<1> DEFINE Claimed == /\ state'[o] = "NONE" => timer'[o] = 0 /\ o \notin unrecorded'
                      /\ state'[o] = "PENDING" =>
                           /\ -timer'[o] + idle'["pending"] <= PollInterval + lost'[o]
                           /\ o \notin unrecorded'
<1>0. /\ state[o] = "NONE" => timer[o] = 0 /\ o \notin unrecorded
      /\ state[o] = "PENDING" => /\ -timer[o] + idle["pending"] <= PollInterval + lost[o]
                                 /\ o \notin unrecorded
  BY DEF ClaimsOnTime
<1>a. /\ "pending" \in Workers /\ \A w \in Callers : w \in Workers /\ w # "pending"
      /\ idle["pending"] \in 0..PollInterval /\ timer[o] \in Int /\ lost[o] \in Nat
  BY DEF Workers, Callers, TypeOK
<1>b. ASSUME NEW w \in Callers, NEW left
      PROVE  PauseAfter(w, left)["pending"] = idle["pending"]
  BY <1>a DEF PauseAfter, TypeOK
\* what leaves the jobs that are not claimed, and PendingWorker, alone
<1> USE DEF failures
<1>c. ASSUME idle'["pending"] = idle["pending"],
             \/ state'[o] \notin {"NONE", "PENDING"}
             \/ /\ state'[o] = state[o] /\ timer'[o] = timer[o] /\ lost'[o] = lost[o]
                /\ o \in unrecorded' => o \in unrecorded
      PROVE  Claimed
  BY <1>0, <1>c
<1>1. ASSUME NEW p \in Operations, Submit(p) PROVE Claimed
  <2>1. CASE p = o
    <3>1. /\ state[o] = "NONE" /\ state'[o] = "PENDING"
          /\ timer' = timer /\ idle' = idle /\ lost' = lost /\ unrecorded' = unrecorded
      BY <1>1, <2>1 DEF Submit, TypeOK
    <3> QED
      BY <1>0, <1>a, <3>1, TimesAssumption
  <2>2. CASE p # o
    BY <1>c, <1>1, <2>2 DEF Submit, TypeOK
  <2> QED
    BY <2>1, <2>2
<1>2. ASSUME NEW p \in Operations, ReceiveReceipt(p) PROVE Claimed
  BY <1>0, <1>c, <1>2 DEF ReceiveReceipt, TypeOK
<1>3. ASSUME NEW S \in SUBSET Operations, ClaimJobs(S) PROVE Claimed
  <2>1. /\ UNCHANGED <<timer, unrecorded>>
        /\ state'[o] \in {"NONE", "PENDING"} => state'[o] = state[o]
        /\ idle["pending"] = 0 /\ idle'["pending"] = PollInterval
    BY <1>a, <1>3 DEF ClaimJobs, TypeOK
  <2>2. state'[o] = "PENDING" => lost'[o] = lost[o] + PollInterval
    BY <1>3 DEF ClaimJobs
  <2> QED
    BY <1>0, <1>a, <2>1, <2>2, TimesAssumption
<1>4. ASSUME NEW w \in Callers, FindJobs(w) PROVE Claimed
  BY <1>b, <1>c, <1>4 DEF FindJobs, job
<1>5. ASSUME NEW w \in Callers, NEW p \in Operations, ProcessJob(w, p) PROVE Claimed
  BY <1>b, <1>c, <1>5 DEF ProcessJob, job
<1>6. ASSUME NEW w \in Callers, EndCall(w)
      PROVE  /\ idle'["pending"] = idle["pending"]
             /\ call[w] = o => state[o] \in {"RUNNING", "WAITING_RETRY", "DONE"}
  <2>1. idle'["pending"] = idle["pending"]
    BY <1>b, <1>6 DEF EndCall
  <2>2. call[w] = o => state[o] \in {"RUNNING", "WAITING_RETRY", "DONE"}
    BY <1>6 DEF CallsMatch, JobState, EndCall
  <2> QED
    BY <2>1, <2>2
<1>7. ASSUME NEW w \in Callers, CallAccepted(w) PROVE Claimed
  BY <1>6, <1>c, <1>7 DEF CallAccepted, TypeOK
<1>8. ASSUME NEW w \in Callers, CallFails(w) PROVE Claimed
  <2>1. EndCall(w) /\ UNCHANGED <<lost, unrecorded>>
    BY <1>8 DEF CallFails
  <2>2. \/ state'[o] \notin {"NONE", "PENDING"}
        \/ state'[o] = state[o] /\ timer'[o] = timer[o]
    <3>1. CASE state[call[w]] = JobState(w)
      BY <1>8, <3>1 DEF CallFails, TypeOK
    <3>2. CASE state[call[w]] # JobState(w)
      BY <1>8, <3>2 DEF CallFails, job
    <3> QED
      BY <3>1, <3>2
  <2> QED
    BY <1>6, <1>c, <2>1, <2>2
<1>9. ASSUME NEW w \in Callers, CallNotRecorded(w) PROVE Claimed
  <2>1. EndCall(w)
    BY <1>9 DEF CallNotRecorded
  <2>2. CASE o = call[w]
    BY <1>6, <1>c, <1>9, <2>1, <2>2 DEF CallNotRecorded, job
  <2>3. CASE o # call[w]
    BY <1>6, <1>c, <1>9, <2>1, <2>3 DEF CallNotRecorded, job
  <2> QED
    BY <2>2, <2>3
<1>10. CASE Tick
  <2>1. idle["pending"] > 0 /\ idle'["pending"] = idle["pending"] - 1
    BY <1>a, <1>10 DEF Tick, CanWait, TypeOK
  <2>2. UNCHANGED <<state, lost, unrecorded>>
    BY <1>10 DEF Tick
  <2>3. state[o] = "NONE" => timer'[o] = timer[o]
    BY <1>10 DEF Tick
  <2>4. timer'[o] \in Int /\ timer'[o] >= timer[o] - 1
    BY <1>a, <1>10 DEF Tick
  <2> QED
    BY <1>0, <1>a, <2>1, <2>2, <2>3, <2>4, TimesAssumption
<1>11. CASE UNCHANGED vars
  BY <1>c, <1>11 DEF vars
<1>12. ASSUME NEW w \in Callers, FindFails(w) PROVE Claimed
  BY <1>c, <1>12 DEF FindFails, job
<1>13. ASSUME NEW w \in Callers, NEW p \in Operations, ReadFails(w, p) PROVE Claimed
  <2>1. state[p] \in {"RUNNING", "WAITING_RETRY", "DONE"}
    BY <1>13 DEF CallsMatch, Theirs, JobState, ReadFails, IsFirst
  <2> QED
    BY <1>b, <1>c, <1>13, <2>1 DEF ReadFails, job
<1> QED
  BY <1>1, <1>2, <1>3, <1>4, <1>5, <1>7, <1>8, <1>9, <1>10, <1>11, <1>12, <1>13 DEF Next

-----------------------------------------------------------------------------
(* The budget is kept *)

LEMMA BudgetTypes ==
  TypeOK => \A w \in Callers, o \in Operations :
    /\ timer[o] \in Int
    /\ Rest(w) \in 0..MaxCall /\ Pause(w) \in 0..PollInterval
    /\ Cardinality(Before(w, o)) \in Nat
    /\ Cardinality(Ahead(w, o)) \in Nat
    /\ Cardinality(Again(w)) \in Nat /\ Cardinality(Again(w)) <= Cardinality(unrecorded)
    /\ Cardinality(unrecorded) \in Nat
    /\ Spent(w, o) \in Int /\ Turns(w, o) \in Int
<1> SUFFICES ASSUME TypeOK, NEW w \in Callers, NEW o \in Operations
             PROVE  /\ timer[o] \in Int
                    /\ Rest(w) \in 0..MaxCall /\ Pause(w) \in 0..PollInterval
                    /\ Cardinality(Before(w, o)) \in Nat
                    /\ Cardinality(Ahead(w, o)) \in Nat
                    /\ Cardinality(Again(w)) \in Nat
                    /\ Cardinality(Again(w)) <= Cardinality(unrecorded)
                    /\ Cardinality(unrecorded) \in Nat
                    /\ Spent(w, o) \in Int /\ Turns(w, o) \in Int
  OBVIOUS
<1>1. timer[o] \in Int
  BY DEF TypeOK
<1>2. Rest(w) \in 0..MaxCall /\ Pause(w) \in 0..PollInterval
  BY TimesAssumption DEF TypeOK, Rest, Pause, Workers
<1>3. /\ Before(w, o) \in SUBSET Operations
      /\ Ahead(w, o) \in SUBSET Operations
      /\ Again(w) \in SUBSET unrecorded
      /\ unrecorded \in SUBSET Operations
  BY DEF TypeOK, Before, Ahead, Again
<1>4. /\ Cardinality(Before(w, o)) \in Nat
      /\ Cardinality(Ahead(w, o)) \in Nat
      /\ Cardinality(Again(w)) \in Nat
      /\ Cardinality(Again(w)) <= Cardinality(unrecorded)
      /\ Cardinality(unrecorded) \in Nat
  BY <1>3, Counts
<1> QED
  BY <1>1, <1>2, <1>4, TimesAssumption DEF Spent, Turns

LEMMA BudgetTypesNext ==
  TypeOK' => (\A w \in Callers, o \in Operations :
    /\ timer[o] \in Int
    /\ Rest(w) \in 0..MaxCall /\ Pause(w) \in 0..PollInterval
    /\ Cardinality(Before(w, o)) \in Nat
    /\ Cardinality(Ahead(w, o)) \in Nat
    /\ Cardinality(Again(w)) \in Nat /\ Cardinality(Again(w)) <= Cardinality(unrecorded)
    /\ Cardinality(unrecorded) \in Nat
    /\ Spent(w, o) \in Int /\ Turns(w, o) \in Int)'
BY BudgetTypes, PTL

\* A job that has just become ready is within its budget, whatever is queued.
LEMMA Counting ==
  TypeOK /\ CallsMatch => \A w \in Callers, o \in Operations :
    o \notin unrecorded /\ call[w] # o /\ -timer[o] <= Extra(w, o) => WithinBudget(w, o)
<1> SUFFICES ASSUME TypeOK, CallsMatch, NEW w \in Callers, NEW o \in Operations,
                    o \notin unrecorded, call[w] # o, -timer[o] <= Extra(w, o)
             PROVE  WithinBudget(w, o)
  OBVIOUS
<1> DEFINE N == Cardinality(Operations)
           R == Cardinality(unrecorded)
           C == IF call[w] = None THEN 0 ELSE 1
<1>1. /\ timer[o] \in Int
      /\ Rest(w) \in 0..MaxCall /\ Pause(w) \in 0..PollInterval
      /\ Cardinality(Before(w, o)) \in Nat
      /\ Cardinality(Ahead(w, o)) \in Nat
      /\ Cardinality(Again(w)) \in Nat /\ Cardinality(Again(w)) <= R
      /\ R \in Nat /\ N \in Nat
      /\ Spent(w, o) \in Int /\ Turns(w, o) \in Int
  BY BudgetTypes, FS_CardinalityType, OperationsAssumption
<1>2. MaxCall \in Nat /\ PollInterval \in Nat /\ Extra(w, o) \in Nat
  BY TimesAssumption DEF Extra, TypeOK
<1>3. call[w] \in Operations \cup {None}
  BY DEF TypeOK
<1>4. /\ Before(w, o) \in SUBSET (Operations \ {o, call[w]})
      /\ Ahead(w, o) \in SUBSET (Operations \ {o, call[w]})
  BY DEF TypeOK, CallsMatch, Before, Ahead
<1>5. /\ Cardinality(Before(w, o)) + C <= N - 1
      /\ Cardinality(Ahead(w, o)) + C <= N - 1
  BY <1>3, <1>4, OthersCount
<1>6. Turns(w, o) + C <= N - 1 + R
  BY <1>1, <1>5 DEF Turns
<1>7. Rest(w) <= C * MaxCall
  <2>1. CASE call[w] = None
    BY <1>2, <2>1 DEF Rest
  <2>2. CASE call[w] # None
    BY <1>1, <1>2, <2>2
  <2> QED
    BY <2>1, <2>2
<1>8. Spent(w, o) <= Extra(w, o) + PollInterval + C * MaxCall
  BY <1>1, <1>2, <1>7 DEF Spent
<1> DEFINE T == Turns(w, o)
           Q == N - 1 + R
<1>9. C \in Int /\ T \in Int /\ Q \in Int /\ T + C \in Int /\ T + C <= Q
  BY <1>1, <1>6
<1> HIDE DEF N, R, C, T, Q
<1>10. (T + C) * MaxCall <= Q * MaxCall
  BY <1>9, Products
<1>11. (T + C) * MaxCall = T * MaxCall + C * MaxCall
  BY <1>9, Products
<1>12. T * MaxCall \in Int /\ C * MaxCall \in Int /\ Q * MaxCall \in Int
  BY <1>9, Products
<1>13. Spent(w, o) + T * MaxCall <= Extra(w, o) + (PollInterval + Q * MaxCall)
  BY <1>1, <1>2, <1>8, <1>10, <1>11, <1>12
<1> QED
  BY <1>13 DEF WithinBudget, Backlog, N, R, T, Q

LEMMA CountingNext ==
  TypeOK' /\ CallsMatch' => (\A w \in Callers, o \in Operations :
    o \notin unrecorded /\ call[w] # o /\ -timer[o] <= Extra(w, o) => WithinBudget(w, o))'
BY Counting, PTL

\* What a step may do to the budget of a job that is ready before and after
LEMMA BudgetKept ==
  ASSUME TypeOK, TypeOK', NEW w \in Callers, NEW o \in Operations, NEW x \in Int,
         WithinBudget(w, o), w = "running" => lost'[o] = lost[o],
         Spent(w, o)' <= Spent(w, o) + x * MaxCall,
         Turns(w, o)' + x + Cardinality(unrecorded)
           <= Turns(w, o) + Cardinality(unrecorded')
  PROVE  WithinBudget(w, o)'
<1> DEFINE n == Cardinality(Operations) - 1
           c == Extra(w, o) + PollInterval
           r == Cardinality(unrecorded)
           r2 == Cardinality(unrecorded')
           s == Spent(w, o)
           s2 == Spent(w, o)'
           k == Turns(w, o)
           k2 == Turns(w, o)'
<1>1. /\ s \in Int /\ k \in Int /\ r \in Int
      /\ s2 \in Int /\ k2 \in Int /\ r2 \in Int
  BY BudgetTypes, BudgetTypesNext
<1>2. n \in Int /\ c \in Int
  BY FS_CardinalityType, OperationsAssumption, TimesAssumption DEF Extra, TypeOK
<1>3. /\ Extra(w, o) \in Int /\ Extra(w, o)' = Extra(w, o) /\ PollInterval \in Int
      /\ (n + r) * MaxCall \in Int /\ (n + r2) * MaxCall \in Int
  BY <1>1, <1>2, Products, TimesAssumption DEF Extra, TypeOK
<1>4. s + k * MaxCall <= Extra(w, o) + (PollInterval + (n + r) * MaxCall)
  BY DEF WithinBudget, Backlog
<1>5. s2 <= s + x * MaxCall /\ k2 + x + r <= k + r2
  OBVIOUS
<1>6. /\ Extra(w, o) + (PollInterval + (n + r) * MaxCall) = c + (n + r) * MaxCall
      /\ Extra(w, o) + (PollInterval + (n + r2) * MaxCall) = c + (n + r2) * MaxCall
  BY <1>3
<1>7. SUFFICES s2 + k2 * MaxCall <= Extra(w, o) + (PollInterval + (n + r2) * MaxCall)
  BY <1>3 DEF WithinBudget, Backlog
<1> HIDE DEF n, c, r, r2, s, s2, k, k2
<1>8. s + k * MaxCall <= c + (n + r) * MaxCall
  BY <1>4, <1>6
<1>9. s2 + k2 * MaxCall <= c + (n + r2) * MaxCall
  BY <1>1, <1>2, <1>5, <1>8, BudgetStep
<1> QED
  BY <1>6, <1>9

\* No step but Tick, not a change of the batch itself, brings a job of it forward
Stands(w) ==
  \A p \in batch[w] : state'[p] = JobState(w) => state[p] = JobState(w) /\ timer'[p] = timer[p]

\* What failed stays on record; a job that awaits its first call loses no more time.
LEMMA FailuresGrow ==
  ASSUME TypeOK, [Next]_vars
  PROVE  /\ dead \subseteq dead'
         /\ \A o \in Operations : state[o] = "RUNNING" => lost'[o] = lost[o]
<1>1. ASSUME NEW S \in SUBSET Operations, ClaimJobs(S)
      PROVE  /\ dead' = dead
             /\ \A o \in Operations : state[o] = "RUNNING" => lost'[o] = lost[o]
  BY <1>1 DEF ClaimJobs
<1>2. CASE \E S \in SUBSET Operations : ClaimJobs(S)
  BY <1>1, <1>2
<1>3. ASSUME NEW w \in Callers, FindFails(w)
      PROVE  dead \subseteq dead' /\ lost' = lost
  BY <1>3 DEF FindFails
<1>4. CASE \E w \in Callers : FindFails(w)
  BY <1>3, <1>4
<1>5. CASE UNCHANGED <<dead, lost>>
  BY <1>5
<1> QED
  BY <1>2, <1>4, <1>5 DEF Next, Submit, ReceiveReceipt, FindJobs, ProcessJob, ReadFails,
     CallAccepted, CallFails, CallNotRecorded, Tick, failures, vars

\* A step that leaves worker w alone and brings no job before o
LEMMA OtherStep ==
  ASSUME TypeOK, TypeOK', NEW w \in Callers, NEW o \in Operations,
         WithinBudget(w, o), w = "running" => lost'[o] = lost[o],
         batch'[w] = batch[w], call'[w] = call[w], elapsed'[w] = elapsed[w],
         idle'[w] = idle[w], timer'[o] = timer[o],
         unrecorded \in SUBSET unrecorded',
         Cardinality(Again(w)') + Cardinality(unrecorded)
           <= Cardinality(Again(w)) + Cardinality(unrecorded'),
         Stands(w),
         \A p \in Operations : MayPrecede(w, p, o)' => MayPrecede(w, p, o)
  PROVE  WithinBudget(w, o)'
<1>1. Spent(w, o)' = Spent(w, o)
  BY DEF Spent, Rest, Pause
<1>2. Before(w, o)' \in SUBSET Before(w, o) /\ Before(w, o) \in SUBSET Operations
  BY DEF Before, Stands, JobState, TypeOK
<1>3. Ahead(w, o)' \in SUBSET Ahead(w, o) /\ Ahead(w, o) \in SUBSET Operations
  BY DEF Ahead
<1>4. /\ Cardinality(Before(w, o)') <= Cardinality(Before(w, o))
      /\ Cardinality(Ahead(w, o)') <= Cardinality(Ahead(w, o))
  BY <1>2, <1>3, Counts
<1>5. Cardinality(unrecorded) <= Cardinality(unrecorded')
  BY Counts DEF TypeOK
<1>6. /\ Spent(w, o) \in Int /\ Cardinality(unrecorded) \in Nat
      /\ Cardinality(Before(w, o)) \in Nat /\ Cardinality(Ahead(w, o)) \in Nat
      /\ Cardinality(Again(w)) \in Nat
  BY BudgetTypes
<1>7. /\ Cardinality(Before(w, o)') \in Nat /\ Cardinality(Ahead(w, o)') \in Nat
      /\ Cardinality(Again(w)') \in Nat /\ Cardinality(unrecorded') \in Nat
  BY BudgetTypesNext
<1>8. Turns(w, o)' + Cardinality(unrecorded) <= Turns(w, o) + Cardinality(unrecorded')
  BY <1>4, <1>5, <1>6, <1>7 DEF Turns
<1>9. Spent(w, o)' <= Spent(w, o) + 0 * MaxCall
  BY <1>1, <1>6, TimesAssumption
<1>10. Turns(w, o)' + 0 + Cardinality(unrecorded) <= Turns(w, o) + Cardinality(unrecorded')
  BY <1>6, <1>7, <1>8 DEF Turns
<1> QED
  BY <1>9, <1>10, BudgetKept

\* OtherStep, for steps after which the same jobs are unrecorded
LEMMA QuietStep ==
  ASSUME TypeOK, TypeOK', NEW w \in Callers, NEW o \in Operations,
         WithinBudget(w, o), w = "running" => lost'[o] = lost[o],
         batch'[w] = batch[w], call'[w] = call[w], elapsed'[w] = elapsed[w],
         idle'[w] = idle[w], timer'[o] = timer[o], unrecorded' = unrecorded,
         Stands(w),
         \A p \in Operations : MayPrecede(w, p, o)' => MayPrecede(w, p, o)
  PROVE  WithinBudget(w, o)'
<1>1. Again(w)' = Again(w)
  BY DEF Again
<1>2. Cardinality(Again(w)) \in Nat /\ Cardinality(unrecorded) \in Nat
  BY BudgetTypes
<1>3. /\ unrecorded \in SUBSET unrecorded'
      /\ Cardinality(Again(w)') + Cardinality(unrecorded)
           <= Cardinality(Again(w)) + Cardinality(unrecorded')
  BY <1>1, <1>2
<1> QED
  BY <1>3, OtherStep

\* A call of w ends that was not for o
LEMMA OwnCallEnds ==
  ASSUME TypeOK, TypeOK', CallsMatch, NEW w \in Callers, NEW o \in Operations,
         NEW q \in Operations, q = call[w], q # o,
         WithinBudget(w, o), EndCall(w), UNCHANGED <<batch, lost>>,
         unrecorded \in SUBSET unrecorded',
         \A p \in Operations \ {q} : timer'[p] = timer[p] /\ state'[p] = state[p],
         \/ /\ unrecorded' = unrecorded
            /\ ~ MayPrecede(w, q, o)'
         \/ unrecorded' = unrecorded \cup {q}
  PROVE  WithinBudget(w, o)'
<1>1. /\ q \in Operations /\ q # o /\ q \notin batch[w] /\ q # None
      /\ call'[w] = None /\ None \notin Operations
      /\ batch'[w] = batch[w] /\ batch[w] \in SUBSET Operations
      /\ unrecorded \in SUBSET Operations
  BY OperationsAssumption DEF EndCall, TypeOK, CallsMatch
<1>2. /\ Spent(w, o) \in Int /\ Cardinality(unrecorded) \in Nat /\ timer[o] \in Int
      /\ Rest(w) \in 0..MaxCall /\ Pause(w) \in 0..PollInterval
      /\ Cardinality(Before(w, o)) \in Nat /\ Cardinality(Ahead(w, o)) \in Nat
      /\ Cardinality(Again(w)) \in Nat
  BY BudgetTypes
<1>3. /\ Cardinality(Before(w, o)') \in Nat /\ Cardinality(Ahead(w, o)') \in Nat
      /\ Cardinality(Again(w)') \in Nat /\ Cardinality(unrecorded') \in Nat
      /\ Rest(w)' \in 0..MaxCall /\ Pause(w)' \in 0..PollInterval
  BY BudgetTypesNext
<1>4. Spent(w, o)' <= Spent(w, o) + 0 * MaxCall
  <2>1. Rest(w)' = 0 /\ Pause(w) = PollInterval
    BY <1>1 DEF Rest, Pause
  <2>2. timer'[o] = timer[o]
    BY <1>1
  <2> QED
    BY <1>1, <1>2, <1>3, <2>1, <2>2, TimesAssumption DEF Spent
<1>5. Before(w, o)' = Before(w, o)
  BY <1>1 DEF Before
<1>6. /\ Ahead(w, o)' \in SUBSET (Ahead(w, o) \cup {q})
      /\ ~ MayPrecede(w, q, o)' => Ahead(w, o)' \in SUBSET Ahead(w, o)
      /\ Ahead(w, o) \in SUBSET Operations /\ Ahead(w, o) \cup {q} \in SUBSET Operations
  <2>1. \A p \in Operations \ {o, q} : MayPrecede(w, p, o)' => MayPrecede(w, p, o)
    BY <1>1 DEF MayPrecede
  <2>2. \A p \in Ahead(w, o)' : /\ p \in Operations \ {o}
                                /\ p \in batch[w] \/ MayPrecede(w, p, o)'
    BY <1>1 DEF Ahead
  <2>3. \A p \in Operations \ {o, q} :
           p \in batch[w] \/ MayPrecede(w, p, o) => p \in Ahead(w, o)
    BY DEF Ahead
  <2>4. Ahead(w, o) \in SUBSET Operations
    BY DEF Ahead
  <2>5. ASSUME NEW p \in Ahead(w, o)', p # q PROVE p \in Ahead(w, o)
    BY <2>1, <2>2, <2>3, <2>5
  <2>6. ASSUME ~ MayPrecede(w, q, o)' PROVE q \notin Ahead(w, o)'
    BY <1>1, <2>2, <2>6
  <2> QED
    BY <1>1, <2>4, <2>5, <2>6
<1>7. Cardinality(Ahead(w, o)') <= Cardinality(Ahead(w, o)) + 1
  <2> DEFINE S == Ahead(w, o)
  <2>1. IsFiniteSet(S) /\ Cardinality(S) \in Nat
    BY <1>6, Counts
  <2>2. /\ Cardinality(Ahead(w, o)') <= Cardinality(S \cup {q})
        /\ Cardinality(S \cup {q}) \in Nat
    BY <1>6, Counts
  <2> HIDE DEF S
  <2>3. Cardinality(S \cup {q}) <= Cardinality(S) + 1
    <3>1. Cardinality(S \cup {q}) = IF q \in S THEN Cardinality(S) ELSE Cardinality(S) + 1
      BY <2>1, FS_AddElement
    <3> QED
      BY <2>1, <3>1
  <2> QED
    BY <1>3, <2>1, <2>2, <2>3 DEF S
<1>8. Turns(w, o)' + 0 + Cardinality(unrecorded) <= Turns(w, o) + Cardinality(unrecorded')
  <2>1. CASE unrecorded' = unrecorded /\ ~ MayPrecede(w, q, o)'
    <3>1. Cardinality(Ahead(w, o)') <= Cardinality(Ahead(w, o))
      BY <1>6, <2>1, Counts
    <3>2. Again(w)' \in SUBSET Again(w) /\ Again(w) \in SUBSET Operations
      BY <1>1, <2>1 DEF Again
    <3>3. Cardinality(Again(w)') <= Cardinality(Again(w))
      BY <3>2, Counts
    <3> QED
      BY <1>1, <1>2, <1>3, <1>5, <2>1, <3>1, <3>3 DEF Turns
  <2>2. CASE q \in unrecorded /\ unrecorded' = unrecorded \cup {q}
    <3>1. unrecorded' = unrecorded
      BY <2>2
    <3>2. /\ Again(w) \in SUBSET Operations
          /\ Again(w)' = Again(w) \ {q} /\ q \in Again(w)
      BY <1>1, <2>2, <3>1 DEF Again
    <3>3. Cardinality(Again(w)') = Cardinality(Again(w)) - 1
      <4> DEFINE A == Again(w)
      <4>1. IsFiniteSet(A) /\ q \in A
        BY <3>2, Counts
      <4>2. Cardinality(A \ {q}) = Cardinality(A) - 1
        <5> HIDE DEF A
        <5> QED
          BY <4>1, FS_RemoveElement
      <4> QED
        BY <3>2, <4>2
    <3> QED
      BY <1>1, <1>2, <1>3, <1>5, <1>7, <3>1, <3>3 DEF Turns
  <2>3. CASE q \notin unrecorded /\ unrecorded' = unrecorded \cup {q}
    <3>1. Cardinality(unrecorded') = Cardinality(unrecorded) + 1
      <4>1. IsFiniteSet(unrecorded)
        BY <1>1, Counts
      <4> QED
        BY <2>3, <4>1, FS_AddElement
    <3>2. Again(w)' \in SUBSET Again(w) /\ Again(w) \in SUBSET Operations
      BY <1>1, <2>3 DEF Again
    <3>3. Cardinality(Again(w)') <= Cardinality(Again(w))
      BY <3>2, Counts
    <3> QED
      BY <1>1, <1>2, <1>3, <1>5, <1>7, <3>1, <3>3 DEF Turns
  <2> QED
    BY <2>1, <2>2, <2>3
<1> QED
  BY <1>4, <1>8, BudgetKept

LEMMA OnTimeStep == ScheduleInv /\ TypeOK' /\ CallsMatch' /\ [Next]_vars => OnTime'
<1> SUFFICES ASSUME TypeOK, CallsMatch, ClaimsOnTime, OnTime, TypeOK', CallsMatch',
                    [Next]_vars, NEW w \in Callers, NEW o \in Operations, Ready(w, o)'
             PROVE  WithinBudget(w, o)'
  BY DEF ScheduleInv, OnTime
<1>a. /\ o \notin unrecorded' /\ state'[o] = JobState(w) /\ call'[w] # o
      /\ JobState(w) \in {"RUNNING", "WAITING_RETRY"}
      /\ timer[o] \in Int /\ timer'[o] \in Int /\ w \notin dead
  BY FailuresGrow DEF Ready, JobState, TypeOK
<1>b. Ready(w, o) => WithinBudget(w, o) /\ (w = "running" => lost'[o] = lost[o])
  BY FailuresGrow DEF OnTime, Ready, JobState
<1>c. -timer'[o] <= Extra(w, o)' => WithinBudget(w, o)'
  BY <1>a, CountingNext
<1>d. Extra(w, o) \in Nat /\ Extra(w, o)' \in Nat /\ PollInterval \in Nat /\ MaxCall \in Nat
  BY TimesAssumption DEF Extra, TypeOK
<1>e. w \in Workers /\ w # "pending"
  BY DEF Workers, Callers
<1>f. \A p \in batch[w] : p \in Operations /\ state[p] \in {JobState(w), "DONE"}
  BY DEF CallsMatch, Theirs, TypeOK
\* a step that changes no job, and one that ends the delivery of job q
<1>g. UNCHANGED <<state, timer>> => Stands(w)
  BY DEF Stands
<1>h. ASSUME NEW q \in Operations, state'[q] = "DONE",
             \A p \in Operations \ {q} : state'[p] = state[p] /\ timer'[p] = timer[p]
      PROVE  /\ Stands(w)
             /\ \A p \in Operations : MayPrecede(w, p, o)' => MayPrecede(w, p, o)
  <2>1. Stands(w)
    BY <1>a, <1>f, <1>h DEF Stands
  <2>2. o # q
    BY <1>a, <1>h
  <2>3. \A p \in Operations : MayPrecede(w, p, o)' => MayPrecede(w, p, o)
    BY <1>h, <2>2 DEF MayPrecede
  <2> QED
    BY <2>1, <2>3
<1> USE DEF failures
<1>1. ASSUME NEW p \in Operations, Submit(p) PROVE WithinBudget(w, o)'
  <2>1. state'[o] = state[o]
    BY <1>a, <1>1 DEF Submit, TypeOK
  <2>2. Ready(w, o)
    BY <1>a, <1>1, <2>1 DEF Submit, Ready
  <2>3. \A q \in Operations : MayPrecede(w, q, o)' => MayPrecede(w, q, o)
    BY <1>1 DEF Submit, TypeOK, MayPrecede
  <2>4. Stands(w)
    BY <1>a, <1>f, <1>1 DEF Submit, TypeOK, Stands
  <2> QED
    BY <1>b, <1>1, <2>2, <2>3, <2>4, QuietStep DEF Submit
<1>2. ASSUME NEW p \in Operations, ReceiveReceipt(p) PROVE WithinBudget(w, o)'
  <2>1. /\ state'[p] = "DONE"
        /\ \A q \in Operations \ {p} : state'[q] = state[q] /\ timer'[q] = timer[q]
    BY <1>2 DEF ReceiveReceipt, TypeOK
  <2>2. o # p /\ Ready(w, o)
    BY <1>a, <1>2, <2>1 DEF ReceiveReceipt, Ready
  <2> QED
    BY <1>b, <1>h, <1>2, <2>1, <2>2, QuietStep DEF ReceiveReceipt
<1>3. ASSUME NEW S \in SUBSET Operations, ClaimJobs(S) PROVE WithinBudget(w, o)'
  <2>1. CASE state[o] = JobState(w)
    <3>1. Ready(w, o)
      BY <1>a, <1>3, <2>1 DEF ClaimJobs, Ready
    <3>2. \A q \in Operations : MayPrecede(w, q, o)' => MayPrecede(w, q, o)
      BY <1>3 DEF ClaimJobs, TypeOK, MayPrecede
    <3>3. idle'[w] = idle[w]
      BY <1>3, <1>e DEF ClaimJobs, TypeOK
    <3>4. Stands(w)
      BY <1>a, <1>f, <1>3 DEF ClaimJobs, Stands
    <3> QED
      BY <1>b, <1>3, <3>1, <3>2, <3>3, <3>4, QuietStep DEF ClaimJobs
  <2>2. CASE state[o] # JobState(w)
    <3>1. o \in S /\ state[o] = "PENDING" /\ JobState(w) = "RUNNING"
      BY <1>a, <1>3, <2>2 DEF ClaimJobs
    <3>2. w = "running"
      BY <3>1 DEF JobState
    <3>3. -timer[o] + idle["pending"] <= PollInterval + lost[o] /\ idle["pending"] = 0
      BY <1>3, <3>1 DEF ClaimsOnTime, ClaimJobs
    <3>4. timer'[o] = timer[o] /\ lost'[o] = lost[o]
      BY <1>3, <3>1 DEF ClaimJobs
    <3>5. lost[o] \in Nat
      BY DEF TypeOK
    <3> QED
      BY <1>a, <1>c, <1>d, <3>2, <3>3, <3>4, <3>5 DEF Extra
  <2> QED
    BY <2>1, <2>2
<1>4. ASSUME NEW v \in Callers, FindJobs(v) PROVE WithinBudget(w, o)'
  <2>0. /\ UNCHANGED <<state, attempt, timer, call, elapsed, lost, unrecorded>>
        /\ Ready(w, o)
    BY <1>a, <1>4 DEF FindJobs, job, Ready
  <2>1. CASE v # w
    <3>1. batch'[w] = batch[w] /\ idle'[w] = idle[w]
      BY <1>4, <2>1 DEF FindJobs, PauseAfter, TypeOK
    <3>2. \A q \in Operations : MayPrecede(w, q, o)' => MayPrecede(w, q, o)
      BY <2>0 DEF MayPrecede
    <3> QED
      BY <1>b, <1>g, <2>0, <3>1, <3>2, QuietStep
  <2>2. CASE v = w /\ o \notin FoundJobs(w)
    <3>1. timer[o] > 0
      BY <1>a, <2>0, <2>2 DEF FoundJobs, Ready
    <3> QED
      BY <1>a, <1>c, <1>d, <2>0, <3>1
  <2>3. CASE v = w /\ o \in FoundJobs(w)
    <3>1. /\ call[w] = None /\ batch[w] = {} /\ idle[w] = 0
          /\ batch'[w] = FoundJobs(w) /\ call'[w] = None
          /\ FoundJobs(w) \in SUBSET Operations /\ None \notin Operations
      BY <1>4, <2>0, <2>3, OperationsAssumption DEF FindJobs, TypeOK, FoundJobs
    <3>2. Spent(w, o)' = Spent(w, o)
      BY <1>a, <2>0, <2>3, <3>1 DEF Spent, Rest, Pause
    <3>3. Before(w, o)' \in SUBSET Ahead(w, o) /\ Ahead(w, o) \in SUBSET Operations
      BY <2>0, <3>1 DEF Before, Ahead, FoundJobs, MayPrecede, JobState
    <3>4. Cardinality(Before(w, o)') <= Cardinality(Ahead(w, o))
      BY <3>3, Counts
    <3>5. /\ Spent(w, o) \in Int /\ Cardinality(unrecorded) \in Nat
          /\ Cardinality(Ahead(w, o)) \in Nat /\ Cardinality(Again(w)) \in Nat
      BY BudgetTypes
    <3>6. Cardinality(Before(w, o)') \in Nat
      BY BudgetTypesNext
    <3>7. Turns(w, o)' + 0 + Cardinality(unrecorded) <= Turns(w, o) + Cardinality(unrecorded')
      BY <2>0, <2>3, <3>1, <3>4, <3>5, <3>6 DEF Turns
    <3>8. Spent(w, o)' <= Spent(w, o) + 0 * MaxCall
      BY <1>d, <3>2, <3>5
    <3> QED
      BY <1>b, <2>0, <3>7, <3>8, BudgetKept
  <2> QED
    BY <2>1, <2>2, <2>3
<1>5. ASSUME NEW v \in Callers, NEW p \in Operations, ProcessJob(v, p) PROVE WithinBudget(w, o)'
  <2>0. /\ UNCHANGED <<state, attempt, timer, elapsed, lost, unrecorded>>
        /\ call[v] = None /\ IsFirst(v, p) /\ p \in batch[v]
        /\ batch' = [batch EXCEPT ![v] = @ \ {p}]
    BY <1>5 DEF ProcessJob, job, IsFirst
  <2>1. CASE v # w
    <3>1. batch'[w] = batch[w] /\ idle'[w] = idle[w] /\ call'[w] = call[w]
      <4>1. CASE state[p] = JobState(v)
        BY <1>5, <2>0, <2>1, <4>1 DEF ProcessJob, TypeOK
      <4>2. CASE state[p] # JobState(v)
        <5>1. UNCHANGED call /\ idle' = PauseAfter(v, batch[v] \ {p})
          BY <1>5, <4>2 DEF ProcessJob
        <5>2. idle'[w] = idle[w]
          BY <2>1, <5>1 DEF PauseAfter, TypeOK, Workers, Callers
        <5>3. batch'[w] = batch[w]
          BY <2>0, <2>1 DEF TypeOK, Callers
        <5> QED
          BY <5>1, <5>2, <5>3
      <4> QED
        BY <4>1, <4>2
    <3>2. \A q \in Operations : MayPrecede(w, q, o)' => MayPrecede(w, q, o)
      BY <2>0 DEF MayPrecede
    <3>3. Ready(w, o)
      BY <1>a, <2>0, <3>1 DEF Ready
    <3> QED
      BY <1>b, <1>g, <2>0, <3>1, <3>2, <3>3, QuietStep
  <2>2. CASE v = w
    <3>0. /\ p # o /\ Ready(w, o) /\ p # None /\ None \notin Operations
          /\ batch'[w] = batch[w] \ {p} /\ batch[w] \in SUBSET Operations
      BY <1>a, <1>5, <2>0, <2>2, OperationsAssumption DEF ProcessJob, TypeOK, Ready
    <3>1. /\ Spent(w, o) \in Int /\ Cardinality(unrecorded) \in Nat
          /\ Rest(w) = 0 /\ Pause(w) = PollInterval
          /\ Cardinality(Before(w, o)) \in Nat /\ Cardinality(Ahead(w, o)) \in Nat
          /\ Cardinality(Again(w)) \in Nat
      BY <2>0, <2>2, BudgetTypes DEF Rest, Pause
    <3>2. /\ Cardinality(Before(w, o)') \in Nat /\ Cardinality(Ahead(w, o)') \in Nat
          /\ Cardinality(Again(w)') \in Nat
          /\ Rest(w)' \in 0..MaxCall /\ Pause(w)' \in 0..PollInterval
      BY BudgetTypesNext
    <3>3. /\ Before(w, o) \in SUBSET Operations /\ Ahead(w, o) \in SUBSET Operations
          /\ Again(w) \in SUBSET Operations
      BY <3>0 DEF Before, Ahead, Again, TypeOK
    <3>4. call'[w] = p \/ call'[w] = None
      BY <1>5, <2>2 DEF ProcessJob, TypeOK
    <3>5. Again(w)' \in SUBSET Again(w)
      BY <2>0, <2>2, <3>0, <3>4 DEF Again, TypeOK
    <3>6. Cardinality(Again(w)') <= Cardinality(Again(w))
      BY <3>3, <3>5, Counts
    <3>7. CASE state[p] = JobState(w)
      <4>1. call'[w] = p
        BY <1>5, <2>2, <3>7 DEF ProcessJob, TypeOK
      <4>2. o \in batch[w] => timer[p] <= timer[o]
        BY <2>0, <2>2, <3>0 DEF IsFirst, Ready
      <4>3. Spent(w, o)' <= Spent(w, o) + 1 * MaxCall
        BY <1>a, <1>d, <2>0, <3>0, <3>1, <3>2 DEF Spent
      <4>4. CASE o \in batch[w]
        <5>1. Before(w, o)' \in SUBSET (Before(w, o) \ {p}) /\ p \in Before(w, o)
          BY <2>0, <2>2, <3>0, <3>7, <4>2, <4>4 DEF Before, JobState
        <5>2. Cardinality(Before(w, o)') <= Cardinality(Before(w, o)) - 1
          <6> DEFINE S == Before(w, o)
          <6>1. /\ IsFiniteSet(S) /\ S \in SUBSET Operations /\ Cardinality(S) \in Nat
                /\ p \in S /\ Before(w, o)' \in SUBSET (S \ {p})
            BY <3>3, <5>1, Counts
          <6> HIDE DEF S
          <6>2. Cardinality(S \ {p}) = Cardinality(S) - 1
            BY <6>1, FS_RemoveElement
          <6>3. Cardinality(Before(w, o)') <= Cardinality(S \ {p})
            BY <6>1, Counts
          <6> QED
            BY <6>2, <6>3 DEF S
        <5>3. Turns(w, o)' + 1 + Cardinality(unrecorded)
                <= Turns(w, o) + Cardinality(unrecorded')
          BY <2>0, <3>0, <3>1, <3>2, <4>4, <5>2 DEF Turns
        <5> QED
          BY <1>b, <3>0, <4>3, <5>3, BudgetKept
      <4>5. CASE o \notin batch[w]
        <5>1. Ahead(w, o)' \in SUBSET (Ahead(w, o) \ {p}) /\ p \in Ahead(w, o)
          BY <2>0, <2>2, <3>0, <4>1 DEF Ahead, MayPrecede
        <5>2. Cardinality(Ahead(w, o)') <= Cardinality(Ahead(w, o)) - 1
          <6> DEFINE S == Ahead(w, o)
          <6>1. /\ IsFiniteSet(S) /\ S \in SUBSET Operations /\ Cardinality(S) \in Nat
                /\ p \in S /\ Ahead(w, o)' \in SUBSET (S \ {p})
            BY <3>3, <5>1, Counts
          <6> HIDE DEF S
          <6>2. Cardinality(S \ {p}) = Cardinality(S) - 1
            BY <6>1, FS_RemoveElement
          <6>3. Cardinality(Ahead(w, o)') <= Cardinality(S \ {p})
            BY <6>1, Counts
          <6> QED
            BY <6>2, <6>3 DEF S
        <5>3. Turns(w, o)' + 1 + Cardinality(unrecorded)
                <= Turns(w, o) + Cardinality(unrecorded')
          BY <2>0, <3>0, <3>1, <3>2, <3>6, <4>5, <5>2 DEF Turns
        <5> QED
          BY <1>b, <3>0, <4>3, <5>3, BudgetKept
      <4> QED
        BY <4>4, <4>5
    <3>8. CASE state[p] # JobState(w)
      <4>1. call'[w] = None
        BY <1>5, <2>0, <2>2, <3>8 DEF ProcessJob
      <4>2. Spent(w, o)' <= Spent(w, o) + 0 * MaxCall
        BY <1>a, <1>d, <2>0, <3>0, <3>1, <3>2, <4>1 DEF Spent, Rest
      <4>3. Before(w, o)' \in SUBSET Before(w, o)
        BY <2>0, <3>0 DEF Before
      <4>4. Ahead(w, o)' \in SUBSET Ahead(w, o)
        BY <2>0, <2>2, <3>0, <4>1 DEF Ahead, MayPrecede
      <4>5. /\ Cardinality(Before(w, o)') <= Cardinality(Before(w, o))
            /\ Cardinality(Ahead(w, o)') <= Cardinality(Ahead(w, o))
        BY <3>3, <4>3, <4>4, Counts
      <4>6. Turns(w, o)' + 0 + Cardinality(unrecorded)
              <= Turns(w, o) + Cardinality(unrecorded')
        BY <2>0, <3>0, <3>1, <3>2, <3>6, <4>5 DEF Turns
      <4> QED
        BY <1>b, <3>0, <4>2, <4>6, BudgetKept
    <3> QED
      BY <3>7, <3>8
  <2> QED
    BY <2>1, <2>2
\* the end of a call of another worker changes nothing of w
<1>6. ASSUME NEW v \in Callers, v # w, EndCall(v), UNCHANGED batch
      PROVE  /\ batch'[w] = batch[w] /\ call'[w] = call[w]
             /\ elapsed'[w] = elapsed[w] /\ idle'[w] = idle[w]
  BY <1>6 DEF EndCall, PauseAfter, TypeOK
<1>7. ASSUME NEW v \in Callers, CallAccepted(v) PROVE WithinBudget(w, o)'
  <2>0. EndCall(v) /\ UNCHANGED <<attempt, batch, lost, unrecorded>>
    BY <1>7 DEF CallAccepted
  <2> PICK q \in Operations : q = call[v]
    BY <2>0 DEF EndCall, TypeOK
  <2>a. /\ state'[q] = "DONE"
        /\ \A p \in Operations \ {q} : state'[p] = state[p] /\ timer'[p] = timer[p]
    BY <1>7 DEF CallAccepted, TypeOK
  <2>1. q # o /\ state'[o] = state[o] /\ timer'[o] = timer[o]
    BY <1>a, <2>a
  <2>2. CASE v # w
    <3>1. Ready(w, o)
      BY <1>6, <1>a, <2>0, <2>1, <2>2 DEF Ready
    <3> QED
      BY <1>6, <1>b, <1>h, <2>0, <2>a, <2>1, <2>2, <3>1, QuietStep
  <2>3. CASE v = w
    <3>1. Ready(w, o)
      BY <1>a, <2>0, <2>1, <2>3 DEF Ready
    <3>2. ~ MayPrecede(w, q, o)'
      BY <2>a DEF MayPrecede
    <3> QED
      BY <1>b, <2>0, <2>a, <2>1, <2>3, <3>1, <3>2, OwnCallEnds
  <2> QED
    BY <2>2, <2>3
<1>8. ASSUME NEW v \in Callers, CallFails(v) PROVE WithinBudget(w, o)'
  <2>0. EndCall(v) /\ UNCHANGED <<batch, lost, unrecorded>> /\ call[v] \in Operations
    BY <1>8 DEF CallFails, EndCall, TypeOK
  <2> PICK q \in Operations : q = call[v]
    BY <2>0
  <2>1. CASE state[q] # JobState(v)
    <3>1. UNCHANGED <<state, timer>>
      BY <1>8, <2>1 DEF CallFails, job
    <3>2. CASE v # w
      <4>1. Ready(w, o)
        BY <1>6, <1>a, <2>0, <3>1, <3>2 DEF Ready
      <4>2. \A p \in Operations : MayPrecede(w, p, o)' => MayPrecede(w, p, o)
        BY <3>1 DEF MayPrecede
      <4> QED
        BY <1>6, <1>b, <1>g, <2>0, <3>1, <3>2, <4>1, <4>2, QuietStep
    <3>3. CASE v = w
      <4>1. q # o /\ Ready(w, o)
        BY <1>a, <2>0, <2>1, <3>1, <3>3 DEF Ready
      <4>2. state[q] = "DONE"
        BY <2>0, <2>1, <3>3 DEF CallsMatch, EndCall
      <4>3. ~ MayPrecede(w, q, o)'
        BY <3>1, <4>2 DEF MayPrecede
      <4> QED
        BY <1>b, <2>0, <3>1, <3>3, <4>1, <4>3, OwnCallEnds
    <3> QED
      BY <3>2, <3>3
  <2>2. CASE state[q] = JobState(v)
    <3>1. state' = [state EXCEPT ![q] = "WAITING_RETRY"]
      BY <1>8, <2>2 DEF CallFails
    <3>2. PICK d \in Nat : timer' = [timer EXCEPT ![q] = d]
      BY <1>8, <2>2 DEF CallFails, Delays
    <3>3. CASE timer'[o] >= 0
      BY <1>a, <1>c, <1>d, <3>3
    <3>4. CASE timer'[o] < 0
      <4>1. o # q /\ timer'[o] = timer[o] /\ state'[o] = state[o]
        BY <2>0, <3>1, <3>2, <3>4 DEF TypeOK
      <4>2. \A p \in Operations \ {q} : timer'[p] = timer[p] /\ state'[p] = state[p]
        BY <3>1, <3>2 DEF TypeOK
      <4>3. timer'[q] = d /\ d > timer[o] /\ state'[q] = "WAITING_RETRY"
        BY <1>a, <2>0, <3>1, <3>2, <3>4, <4>1 DEF TypeOK
      <4>4. ~ MayPrecede(w, q, o)'
        BY <1>a, <4>1, <4>3 DEF MayPrecede
      <4>5. CASE v # w
        <5>1. Ready(w, o)
          BY <1>6, <1>a, <2>0, <4>1, <4>5 DEF Ready
        <5>2. \A p \in Operations : MayPrecede(w, p, o)' => MayPrecede(w, p, o)
          BY <4>1, <4>2, <4>4 DEF MayPrecede
        <5>3. Stands(w)
          <6>1. q \notin batch[w]
            BY <1>f, <2>2, <4>5 DEF JobState, Callers
          <6> QED
            BY <1>f, <4>2, <6>1 DEF Stands
        <5> QED
          BY <1>6, <1>b, <2>0, <4>1, <4>5, <5>1, <5>2, <5>3, QuietStep
      <4>6. CASE v = w
        <5>1. Ready(w, o)
          BY <1>a, <2>0, <4>1, <4>6 DEF Ready
        <5> QED
          BY <1>b, <2>0, <4>1, <4>2, <4>4, <4>6, <5>1, OwnCallEnds
      <4> QED
        BY <4>5, <4>6
    <3> QED
      BY <1>a, <3>3, <3>4
  <2> QED
    BY <2>1, <2>2
<1>9. ASSUME NEW v \in Callers, CallNotRecorded(v) PROVE WithinBudget(w, o)'
  <2>0. /\ EndCall(v) /\ UNCHANGED <<state, attempt, timer, batch, lost>>
        /\ call[v] \in Operations
        /\ unrecorded' = unrecorded \cup {call[v]} /\ o # call[v] /\ o \notin unrecorded
    BY <1>a, <1>9 DEF CallNotRecorded, EndCall, job, TypeOK
  <2> PICK q \in Operations : q = call[v]
    BY <2>0
  <2>1. CASE v # w
    <3>1. Ready(w, o)
      BY <1>6, <1>a, <2>0, <2>1 DEF Ready
    <3>2. \A p \in Operations : MayPrecede(w, p, o)' => MayPrecede(w, p, o)
      BY <2>0 DEF MayPrecede
    <3>3. Cardinality(Again(w)') + Cardinality(unrecorded)
            <= Cardinality(Again(w)) + Cardinality(unrecorded')
      <4>1. Again(w)' = (unrecorded \cup {q}) \cap (batch[w] \cup {call[w]})
        BY <1>6, <2>0, <2>1 DEF Again
      <4>2. unrecorded \in SUBSET Operations
        BY DEF TypeOK
      <4> QED
        BY <2>0, <4>1, <4>2, AgainGrows DEF Again
    <3> QED
      BY <1>6, <1>b, <1>g, <2>0, <2>1, <3>1, <3>2, <3>3, OtherStep
  <2>2. CASE v = w
    <3>1. Ready(w, o)
      BY <1>a, <2>0, <2>2 DEF Ready
    <3> QED
      BY <1>b, <2>0, <2>2, <3>1, OwnCallEnds
  <2> QED
    BY <2>1, <2>2
<1>10. CASE Tick
  <2>0. UNCHANGED <<state, attempt, batch, call, lost, unrecorded>> /\ CanWait(w)
    BY <1>e, <1>10 DEF Tick
  <2>1. Ready(w, o)
    BY <1>a, <2>0 DEF Ready
  <2>2. timer'[o] = timer[o] - 1
    <3>1. ~ Unpromised(o)
      BY <2>1 DEF Unpromised, Ready, JobState, Callers, TypeOK
    <3> QED
      BY <1>a, <1>10, <2>0, <2>1, <3>1 DEF Tick, Ready
  <2>3. \A q \in Operations : timer[q] \in Int /\ timer'[q] \in Int /\ timer'[q] >= timer[q] - 1
    BY <1>10 DEF Tick, TypeOK
  <2>4. \A q \in Operations : timer'[q] <= timer'[o] => timer[q] <= timer[o]
    BY <1>a, <2>2, <2>3
  <2>5. \A q \in Operations : MayPrecede(w, q, o)' => MayPrecede(w, q, o)
    BY <2>0, <2>4 DEF MayPrecede
  <2>6. Before(w, o)' \in SUBSET Before(w, o) /\ Before(w, o) \in SUBSET Operations
    BY <2>0, <2>4 DEF Before, JobState, TypeOK
  <2>7. Ahead(w, o)' \in SUBSET Ahead(w, o) /\ Ahead(w, o) \in SUBSET Operations
    BY <2>0, <2>5 DEF Ahead
  <2>8. /\ Cardinality(Before(w, o)') <= Cardinality(Before(w, o))
        /\ Cardinality(Ahead(w, o)') <= Cardinality(Ahead(w, o))
        /\ Again(w)' = Again(w)
    BY <2>0, <2>6, <2>7, Counts DEF Again
  <2>9. /\ Spent(w, o) \in Int /\ Cardinality(unrecorded) \in Nat
        /\ Cardinality(Before(w, o)) \in Nat /\ Cardinality(Ahead(w, o)) \in Nat
        /\ Cardinality(Again(w)) \in Nat
        /\ Rest(w) \in 0..MaxCall /\ Pause(w) \in 0..PollInterval
    BY BudgetTypes
  <2>10. /\ Cardinality(Before(w, o)') \in Nat /\ Cardinality(Ahead(w, o)') \in Nat
         /\ Rest(w)' \in 0..MaxCall /\ Pause(w)' \in 0..PollInterval
    BY BudgetTypesNext
  <2>11. Turns(w, o)' + 0 + Cardinality(unrecorded) <= Turns(w, o) + Cardinality(unrecorded')
    BY <2>0, <2>8, <2>9, <2>10 DEF Turns
  <2>12. CASE call[w] # None
    <3>1. Rest(w)' = Rest(w) - 1 /\ Pause(w)' = Pause(w)
      BY <1>10, <1>d, <2>0, <2>12 DEF Tick, Rest, Pause, TypeOK
    <3>2. Spent(w, o)' <= Spent(w, o) + 0 * MaxCall
      BY <1>a, <1>d, <2>0, <2>2, <2>9, <2>10, <3>1 DEF Spent
    <3> QED
      BY <1>b, <2>1, <2>11, <3>2, BudgetKept
  <2>13. CASE call[w] = None
    <3>1. /\ batch[w] = {} /\ idle[w] > 0 /\ idle'[w] = idle[w] - 1
      BY <1>a, <1>e, <1>10, <2>0, <2>13 DEF Tick, CanWait, TypeOK
    <3>2. Rest(w)' = Rest(w) /\ Pause(w)' = Pause(w) - 1 /\ o \notin batch[w]
      BY <2>0, <2>13, <3>1 DEF Rest, Pause
    <3>3. Spent(w, o)' <= Spent(w, o) + 0 * MaxCall
      BY <1>a, <1>d, <2>0, <2>2, <2>9, <2>10, <3>2 DEF Spent
    <3> QED
      BY <1>b, <2>1, <2>11, <3>3, BudgetKept
  <2> QED
    BY <2>12, <2>13
<1>11. CASE UNCHANGED vars
  <2>1. Ready(w, o)
    BY <1>a, <1>11 DEF vars, Ready
  <2>2. \A q \in Operations : MayPrecede(w, q, o)' => MayPrecede(w, q, o)
    BY <1>11 DEF vars, MayPrecede
  <2> QED
    BY <1>b, <1>g, <1>11, <2>1, <2>2, QuietStep DEF vars
<1>12. ASSUME NEW v \in Callers, FindFails(v) PROVE WithinBudget(w, o)'
  <2>1. UNCHANGED <<state, timer, batch, call, elapsed, idle, lost, unrecorded>>
    BY <1>12 DEF FindFails, job
  <2>2. Ready(w, o)
    BY <1>a, <2>1 DEF Ready
  <2>3. \A q \in Operations : MayPrecede(w, q, o)' => MayPrecede(w, q, o)
    BY <2>1 DEF MayPrecede
  <2> QED
    BY <1>b, <1>g, <2>1, <2>2, <2>3, QuietStep
<1>13. ASSUME NEW v \in Callers, NEW p \in Operations, ReadFails(v, p)
       PROVE  WithinBudget(w, o)'
  <2>0. /\ UNCHANGED <<state, attempt, timer, call, elapsed, lost>>
        /\ call[v] = None /\ p \in batch[v] /\ unrecorded \in SUBSET Operations
        /\ batch' = [batch EXCEPT ![v] = @ \ {p}]
        /\ unrecorded' = unrecorded \cup {p} /\ o # p /\ o \notin unrecorded
    BY <1>a, <1>13 DEF ReadFails, job, IsFirst, TypeOK
  <2>1. Ready(w, o)
    BY <1>a, <2>0 DEF Ready
  <2>2. \A q \in Operations : MayPrecede(w, q, o)' => MayPrecede(w, q, o)
    BY <2>0 DEF MayPrecede
  <2>3. CASE v # w
    <3>1. batch'[w] = batch[w] /\ idle'[w] = idle[w]
      BY <1>13, <2>3 DEF ReadFails, PauseAfter, TypeOK, Workers
    <3>2. Again(w)' = (unrecorded \cup {p}) \cap (batch[w] \cup {call[w]})
      BY <2>0, <3>1 DEF Again
    <3>3. Cardinality(Again(w)') + Cardinality(unrecorded)
            <= Cardinality(Again(w)) + Cardinality(unrecorded')
      BY <2>0, <3>2, AgainGrows DEF Again
    <3> QED
      BY <1>b, <1>g, <2>0, <2>1, <2>2, <3>1, <3>3, OtherStep
  <2>4. CASE v = w
    <3>1. batch'[w] = batch[w] \ {p} /\ call[w] = None /\ call'[w] = None
      BY <2>0, <2>4 DEF TypeOK
    <3>2. /\ Spent(w, o) \in Int /\ Rest(w) = 0 /\ Pause(w) = PollInterval
          /\ Cardinality(unrecorded) \in Nat
          /\ Cardinality(Before(w, o)) \in Nat /\ Cardinality(Ahead(w, o)) \in Nat
          /\ Cardinality(Again(w)) \in Nat
      BY <2>0, <2>4, BudgetTypes DEF Rest, Pause
    <3>3. /\ Rest(w)' = 0 /\ Pause(w)' \in 0..PollInterval
          /\ Cardinality(unrecorded') \in Nat
          /\ Cardinality(Before(w, o)') \in Nat /\ Cardinality(Ahead(w, o)') \in Nat
          /\ Cardinality(Again(w)') \in Nat
      BY <3>1, BudgetTypesNext DEF Rest
    <3>4. Spent(w, o)' <= Spent(w, o) + 0 * MaxCall
      BY <1>a, <1>d, <2>0, <3>1, <3>2, <3>3 DEF Spent
    <3>5. /\ Before(w, o)' \in SUBSET Before(w, o) /\ Before(w, o) \in SUBSET Operations
          /\ Ahead(w, o)' \in SUBSET Ahead(w, o) /\ Ahead(w, o) \in SUBSET Operations
      <4>1. Before(w, o)' \in SUBSET Before(w, o) /\ Before(w, o) \in SUBSET Operations
        BY <2>0, <3>1 DEF Before, JobState, TypeOK
      <4>2. Ahead(w, o)' \in SUBSET Ahead(w, o) /\ Ahead(w, o) \in SUBSET Operations
        BY <2>2, <3>1 DEF Ahead
      <4> QED
        BY <4>1, <4>2
    <3>6. Again(w)' \in SUBSET Again(w) /\ Again(w) \in SUBSET Operations
      BY <2>0, <3>1, OperationsAssumption DEF Again
    <3>7. /\ Cardinality(Before(w, o)') <= Cardinality(Before(w, o))
          /\ Cardinality(Ahead(w, o)') <= Cardinality(Ahead(w, o))
          /\ Cardinality(Again(w)') <= Cardinality(Again(w))
      BY <3>5, <3>6, Counts
    <3>8. Cardinality(unrecorded) <= Cardinality(unrecorded')
      <4>1. unrecorded' \in SUBSET Operations /\ unrecorded \in SUBSET unrecorded'
        BY <2>0
      <4> QED
        BY <4>1, Counts
    <3>9. Turns(w, o)' + 0 + Cardinality(unrecorded) <= Turns(w, o) + Cardinality(unrecorded')
      BY <2>0, <3>1, <3>2, <3>3, <3>7, <3>8 DEF Turns
    <3> QED
      BY <1>b, <2>1, <3>4, <3>9, BudgetKept
  <2> QED
    BY <2>3, <2>4
<1> QED
  BY <1>1, <1>2, <1>3, <1>4, <1>5, <1>7, <1>8, <1>9, <1>10, <1>11, <1>12, <1>13 DEF Next

-----------------------------------------------------------------------------
(* Theorems *)

\* The budget and what it rests on hold in every reachable state.
THEOREM ScheduleKept == Spec => []ScheduleInv
<1>1. Init => ScheduleInv
  <2> SUFFICES ASSUME Init PROVE ScheduleInv
    OBVIOUS
  <2>1. TypeOK
    BY TypeOKInit
  <2>2. CallsMatch
    BY DEF Init, CallsMatch, Theirs
  <2>3. ClaimsOnTime
    BY TimesAssumption DEF Init, ClaimsOnTime
  <2>4. OnTime
    BY DEF Init, OnTime, Ready, JobState
  <2> QED
    BY <2>1, <2>2, <2>3, <2>4 DEF ScheduleInv
<1>2. ScheduleInv /\ [Next]_vars => ScheduleInv'
  BY TypeOKStep, CallsMatchStep, ClaimsOnTimeStep, OnTimeStep DEF ScheduleInv
<1> QED
  BY <1>1, <1>2, PTL DEF Spec

\* Types, for any times and any number of operations; and that no call
\* outlasts the timeouts.
THEOREM ScheduleTypeCorrect == Spec => []TypeOK
<1>1. ScheduleInv => TypeOK
  BY DEF ScheduleInv
<1> QED
  BY <1>1, ScheduleKept, PTL

\* Within the budget, nothing has waited longer than the whole of it.
LEMMA BudgetBounds ==
  ASSUME ScheduleInv, NEW w \in Callers, NEW o \in Operations, Ready(w, o)
  PROVE  -timer[o] <= Extra(w, o) + Backlog
<1>1. TypeOK /\ WithinBudget(w, o)
  BY DEF ScheduleInv, OnTime
<1>2. /\ timer[o] \in Int /\ Spent(w, o) \in Int /\ Turns(w, o) \in Nat
      /\ Rest(w) \in Nat /\ Pause(w) \in Nat /\ Cardinality(unrecorded) \in Nat
  <2>1. /\ timer[o] \in Int /\ Spent(w, o) \in Int
        /\ Rest(w) \in 0..MaxCall /\ Pause(w) \in 0..PollInterval
        /\ Cardinality(Before(w, o)) \in Nat /\ Cardinality(Ahead(w, o)) \in Nat
        /\ Cardinality(Again(w)) \in Nat /\ Cardinality(unrecorded) \in Nat
    BY <1>1, BudgetTypes
  <2> QED
    BY <2>1 DEF Turns
<1>3. Turns(w, o) * MaxCall \in Nat
  BY <1>2, TimesAssumption
<1>4. -timer[o] <= Spent(w, o)
  BY <1>2 DEF Spent
<1>5. Extra(w, o) + Backlog \in Int
  <2>1. Cardinality(Operations) - 1 + Cardinality(unrecorded) \in Int
    BY <1>2, FS_CardinalityType, OperationsAssumption
  <2>2. (Cardinality(Operations) - 1 + Cardinality(unrecorded)) * MaxCall \in Int
    BY <2>1, Products
  <2> QED
    BY <2>2, <1>1, TimesAssumption DEF Extra, Backlog, TypeOK
<1>6. Spent(w, o) + Turns(w, o) * MaxCall <= Extra(w, o) + Backlog
  BY <1>1 DEF WithinBudget
<1> QED
  BY <1>2, <1>3, <1>4, <1>5, <1>6

\* A submitted job is claimed at the next poll of PendingWorker, one pause later
\* for each claim poll that broke off before its turn, and RunningWorker, while it
\* lives, takes it up after a pause, one call of each other job and one more of
\* each job whose transaction failed: for any number of operations and any times.
THEOREM FirstCallInTimeAlways == Spec => []FirstCallInTime
<1>1. ScheduleInv => FirstCallInTime
  <2> SUFFICES ASSUME ScheduleInv, NEW o \in Operations \ unrecorded
               PROVE  /\ state[o] = "PENDING" => -timer[o] <= PollInterval + lost[o]
                      /\ state[o] = "RUNNING" /\ call["running"] # o /\ "running" \notin dead =>
                           -timer[o] <= PollInterval + lost[o] + Backlog
    BY DEF FirstCallInTime
  <2>1. state[o] = "PENDING" => -timer[o] <= PollInterval + lost[o]
    <3>1. /\ idle["pending"] \in 0..PollInterval
          /\ timer[o] \in Int /\ lost[o] \in Nat
      BY DEF ScheduleInv, TypeOK, Workers
    <3> QED
      BY <3>1, TimesAssumption DEF ScheduleInv, ClaimsOnTime
  <2>2. ASSUME state[o] = "RUNNING", call["running"] # o, "running" \notin dead
        PROVE  -timer[o] <= PollInterval + lost[o] + Backlog
    <3>1. "running" \in Callers /\ Ready("running", o)
      BY <2>2 DEF Callers, Ready, JobState
    <3> QED
      BY <3>1, BudgetBounds DEF Extra
  <2> QED
    BY <2>1, <2>2
<1> QED
  BY <1>1, ScheduleKept, PTL

\* A retry that is due is taken up by RetryWorker, while it lives, after a pause,
\* one call of each other job and one more of each job whose transaction failed:
\* for any number of operations and any times.
THEOREM RetryInTimeAlways == Spec => []RetryInTime
<1>1. ScheduleInv => RetryInTime
  <2> SUFFICES ASSUME ScheduleInv, NEW o \in Operations \ unrecorded,
                      state[o] = "WAITING_RETRY", call["retry"] # o, "retry" \notin dead
               PROVE  -timer[o] <= Backlog
    BY DEF RetryInTime
  <2>1. "retry" \in Callers /\ Ready("retry", o)
    BY DEF Callers, Ready, JobState
  <2>2. -timer[o] <= Extra("retry", o) + Backlog
    BY <2>1, BudgetBounds
  <2>3. Extra("retry", o) = 0
    BY DEF Extra
  <2>4. Backlog \in Int
    <3>1. unrecorded \in SUBSET Operations
      BY DEF ScheduleInv, TypeOK
    <3>2. Cardinality(Operations) - 1 + Cardinality(unrecorded) \in Int
      BY <3>1, Counts, FS_CardinalityType, OperationsAssumption
    <3>3. (Cardinality(Operations) - 1 + Cardinality(unrecorded)) * MaxCall \in Int
      BY <3>2, Products
    <3> QED
      BY <3>3, TimesAssumption DEF Backlog
  <2> QED
    BY <2>2, <2>3, <2>4
<1> QED
  BY <1>1, ScheduleKept, PTL

-----------------------------------------------------------------------------
(* Never early *)

\* What RetryWorker has found is due until it was taken up or a receipt ended it:
\* only the call of a waiting job gives it another time.
FoundStaysDue ==
  \A o \in batch["retry"] : /\ state[o] \in {"WAITING_RETRY", "DONE"}
                            /\ state[o] = "WAITING_RETRY" => timer[o] <= 0

\* FoundStaysDue, step by step
LEMMA FoundStaysDueStep ==
  TypeOK /\ CallsMatch /\ FoundStaysDue /\ [Next]_vars => FoundStaysDue'
<1> SUFFICES ASSUME TypeOK, CallsMatch, FoundStaysDue, [Next]_vars
             PROVE  FoundStaysDue'
  OBVIOUS
<1> DEFINE old == batch["retry"]
<1>1. "retry" \in Callers /\ old \in SUBSET Operations
  BY DEF TypeOK, Callers
<1>2. ASSUME batch'["retry"] \subseteq old,
             \A o \in old : \/ state'[o] = "DONE"
                            \/ state'[o] = state[o] /\ timer'[o] <= timer[o]
      PROVE  FoundStaysDue'
  <2>1. ASSUME NEW o \in batch'["retry"]
        PROVE  /\ state'[o] \in {"WAITING_RETRY", "DONE"}
               /\ state'[o] = "WAITING_RETRY" => timer'[o] <= 0
    <3>1. CASE state'[o] = "DONE"
      BY <3>1
    <3>2. CASE state'[o] = state[o] /\ timer'[o] <= timer[o]
      <4>1. o \in old /\ timer[o] \in Int
        BY <1>1, <1>2 DEF TypeOK
      <4>2. CASE state[o] = "DONE"
        BY <3>2, <4>2
      <4>3. CASE state[o] = "WAITING_RETRY"
        <5>1. timer[o] <= 0
          BY <4>1, <4>3 DEF FoundStaysDue
        <5>2. timer'[o] \in Int
          BY <4>1, <1>1, TypeOKStep DEF TypeOK
        <5> QED BY <3>2, <4>1, <4>3, <5>1, <5>2
      <4> QED BY <4>1, <4>2, <4>3 DEF FoundStaysDue
    <3> QED BY <1>2, <2>1, <3>1, <3>2
  <2> QED BY <2>1 DEF FoundStaysDue
<1>3. \A o \in old : timer[o] \in Int /\ timer[o] <= timer[o]
  BY <1>1 DEF TypeOK
<1>4. CASE UNCHANGED <<state, timer>> /\ batch'["retry"] \subseteq old
  BY <1>2, <1>3, <1>4
<1>5. ASSUME NEW o \in Operations, Submit(o) PROVE FoundStaysDue'
  <2>1. o \notin old
    BY <1>5 DEF Submit, FoundStaysDue
  <2>2. batch' = batch /\ timer' = timer /\ \A x \in Operations \ {o} : state'[x] = state[x]
    BY <1>5 DEF Submit, TypeOK
  <2> QED BY <1>1, <1>2, <1>3, <2>1, <2>2
<1>6. ASSUME NEW o \in Operations, ReceiveReceipt(o) PROVE FoundStaysDue'
  <2>1. /\ batch' = batch
        /\ \A x \in Operations : \/ state'[x] = "DONE"
                                 \/ state'[x] = state[x] /\ timer'[x] = timer[x]
    BY <1>6 DEF ReceiveReceipt, TypeOK
  <2> QED BY <1>1, <1>2, <1>3, <2>1
<1>7. ASSUME NEW S \in SUBSET Operations, ClaimJobs(S) PROVE FoundStaysDue'
  <2>1. batch' = batch /\ timer' = timer /\ \A x \in old : state'[x] = state[x]
    BY <1>1, <1>7 DEF ClaimJobs, FoundStaysDue
  <2> QED BY <1>2, <1>3, <2>1
<1>8. ASSUME NEW w \in Callers, FindJobs(w) PROVE FoundStaysDue'
  <2>1. CASE w # "retry"
    <3>1. batch'["retry"] = old /\ UNCHANGED <<state, timer>>
      BY <1>1, <1>8, <2>1 DEF FindJobs, TypeOK, job
    <3> QED BY <1>4, <3>1
  <2>2. CASE w = "retry"
    <3>1. batch'["retry"] = FoundJobs("retry") /\ UNCHANGED <<state, timer>>
      BY <1>1, <1>8, <2>2 DEF FindJobs, TypeOK, job
    <3> QED BY <3>1 DEF FoundStaysDue, FoundJobs, JobState
  <2> QED BY <2>1, <2>2
<1>9. ASSUME NEW w \in Callers, NEW o \in Operations, ProcessJob(w, o) PROVE FoundStaysDue'
  <2>1. batch'["retry"] \subseteq old /\ UNCHANGED <<state, timer>>
    BY <1>1, <1>9 DEF ProcessJob, TypeOK, job
  <2> QED BY <1>4, <2>1
<1>10. ASSUME NEW w \in Callers, CallAccepted(w) PROVE FoundStaysDue'
  <2>1. /\ batch' = batch
        /\ \A x \in Operations : \/ state'[x] = "DONE"
                                 \/ state'[x] = state[x] /\ timer'[x] = timer[x]
    BY <1>10 DEF CallAccepted, TypeOK
  <2> QED BY <1>1, <1>2, <1>3, <2>1
\* The call that gives a job another time has taken it out of the batch, or is its first.
<1>11. ASSUME NEW w \in Callers, CallFails(w) PROVE FoundStaysDue'
  <2>1. call[w] # None /\ batch' = batch
    BY <1>11 DEF CallFails, EndCall
  <2>2. PICK o \in Operations : o = call[w]
    BY <2>1 DEF TypeOK
  <2>3. CASE state[o] # JobState(w)
    <3>1. UNCHANGED <<state, timer>>
      BY <1>11, <2>2, <2>3 DEF CallFails, job
    <3> QED BY <1>4, <2>1, <3>1
  <2>4. CASE state[o] = JobState(w)
    <3>1. o \notin old
      <4>1. CASE w = "retry"
        BY <2>2, <4>1 DEF CallsMatch
      <4>2. CASE w = "running"
        BY <2>4, <4>2 DEF FoundStaysDue, JobState
      <4> QED BY <4>1, <4>2 DEF Callers
    <3>2. \A x \in Operations \ {o} : state'[x] = state[x] /\ timer'[x] = timer[x]
      BY <1>11, <2>2, <2>4 DEF CallFails, TypeOK
    <3> QED BY <1>1, <1>2, <1>3, <2>1, <3>1, <3>2
  <2> QED BY <2>3, <2>4
<1>12. ASSUME NEW w \in Callers, CallNotRecorded(w) PROVE FoundStaysDue'
  BY <1>4, <1>12 DEF CallNotRecorded, job
<1>13. CASE Tick
  <2>1. /\ batch' = batch /\ state' = state
        /\ \A x \in Operations : timer'[x] <= timer[x]
    BY <1>13 DEF Tick, TypeOK
  <2> QED BY <1>1, <1>2, <2>1
<1>14. CASE UNCHANGED vars
  BY <1>4, <1>14 DEF vars
<1>15. ASSUME NEW w \in Callers, FindFails(w) PROVE FoundStaysDue'
  BY <1>4, <1>15 DEF FindFails, job
<1>16. ASSUME NEW w \in Callers, NEW o \in Operations, ReadFails(w, o) PROVE FoundStaysDue'
  <2>1. batch'["retry"] \subseteq old /\ UNCHANGED <<state, timer>>
    BY <1>1, <1>16 DEF ReadFails, TypeOK, job
  <2> QED BY <1>4, <2>1
<1> QED
  BY <1>5, <1>6, <1>7, <1>8, <1>9, <1>10, <1>11, <1>12, <1>13, <1>14, <1>15, <1>16 DEF Next

\* With the clock, too: however old its batch, RetryWorker takes up no job before
\* the delay that RetryPolicy drew for it has passed.
THEOREM RetryIsNeverEarly ==
  Spec => [][\A o \in Operations :
               call'["retry"] = o /\ call["retry"] # o =>
                 state[o] = "WAITING_RETRY" /\ timer[o] <= 0]_vars
<1>1. Init => FoundStaysDue
  BY DEF Init, FoundStaysDue, Callers
<1>2. ScheduleInv /\ FoundStaysDue /\ [Next]_vars => FoundStaysDue'
  BY FoundStaysDueStep DEF ScheduleInv
<1>3. ASSUME TypeOK, FoundStaysDue, [Next]_vars,
             NEW o \in Operations, call'["retry"] = o, call["retry"] # o
      PROVE  state[o] = "WAITING_RETRY" /\ timer[o] <= 0
  <2>1. "retry" \in Callers /\ o # None
    BY OperationsAssumption DEF Callers
  <2>2. ASSUME ~ ProcessJob("retry", o) PROVE FALSE
    <3>1. ASSUME NEW w \in Callers, EndCall(w) PROVE FALSE
      BY <1>3, <2>1, <3>1 DEF EndCall, TypeOK
    <3>2. ASSUME NEW w \in Callers, NEW x \in Operations, ProcessJob(w, x) PROVE FALSE
      BY <1>3, <2>1, <2>2, <3>2 DEF ProcessJob, TypeOK
    <3> QED
      BY <1>3, <3>1, <3>2 DEF Next, Submit, ReceiveReceipt, ClaimJobs, FindJobs, FindFails, ReadFails,
        CallAccepted, CallFails, CallNotRecorded, Tick, vars
  <2>3. o \in batch["retry"] /\ state[o] = JobState("retry")
    BY <1>3, <2>1, <2>2 DEF ProcessJob, IsFirst, TypeOK
  <2> QED BY <1>3, <2>3 DEF FoundStaysDue, JobState
<1>4. ScheduleInv /\ FoundStaysDue /\ [Next]_vars =>
        [\A o \in Operations :
           call'["retry"] = o /\ call["retry"] # o =>
             state[o] = "WAITING_RETRY" /\ timer[o] <= 0]_vars
  BY <1>3 DEF ScheduleInv
<1> QED
  BY <1>1, <1>2, <1>4, ScheduleKept, PTL DEF Spec

-----------------------------------------------------------------------------
(* The lifecycle of a job *)

taken == {call[w] : w \in Callers} \ {None}

\* The two callers look for different states, and await different jobs.
LEMMA CallsDiffer ==
  ASSUME TypeOK, CallsMatch, NEW w \in Callers
  PROVE  /\ JobState(w) \in {"RUNNING", "WAITING_RETRY"}
         /\ \A v \in Callers : v # w => JobState(v) # JobState(w)
         /\ \A v \in Callers, o \in Operations :
              state[o] = JobState(w) /\ call[v] = o => v = w
<1>1. /\ JobState(w) \in {"RUNNING", "WAITING_RETRY"}
      /\ \A v \in Callers : v # w => JobState(v) # JobState(w)
  BY DEF JobState, Callers
<1>2. ASSUME NEW v \in Callers, NEW o \in Operations, state[o] = JobState(w), call[v] = o
      PROVE  v = w
  <2>1. state[o] \in {JobState(v), "DONE"}
    BY <1>2, OperationsAssumption DEF CallsMatch
  <2> QED BY <1>1, <1>2, <2>1
<1> QED BY <1>1, <1>2

\* At its turn a job is taken up or passed over.
LEMMA TurnIsJobStep ==
  ASSUME TypeOK, CallsMatch, NEW w \in Callers, NEW o \in Operations, ProcessJob(w, o)
  PROVE  Jobs!JobsNext \/ UNCHANGED Jobs!jobs
<1>1. UNCHANGED <<state, attempt>> /\ call[w] = None
  BY DEF ProcessJob, job
<1>2. CASE state[o] # JobState(w)
  BY <1>1, <1>2 DEF ProcessJob, Jobs!jobs
<1>3. CASE state[o] = JobState(w)
  <2>1. call' = [call EXCEPT ![w] = o]
    BY <1>3 DEF ProcessJob
  <2>2. \A v \in Callers : call'[v] = IF v = w THEN o ELSE call[v]
    BY <2>1 DEF TypeOK
  <2>3. taken' = taken \cup {o}
    BY <1>1, <2>2, OperationsAssumption DEF taken
  <2>4. o \notin taken
    BY <1>1, <1>3, CallsDiffer, OperationsAssumption DEF taken
  <2>5. Jobs!Take(o)
    BY <1>1, <1>3, <2>3, <2>4, CallsDiffer DEF Jobs!Take, taken
  <2> QED BY <2>5 DEF Jobs!JobsNext
<1> QED BY <1>2, <1>3

\* The end of a call delivers its job, counts a failure, or leaves no trace.
LEMMA EndIsJobStep ==
  ASSUME TypeOK, CallsMatch, NEW w \in Callers,
         CallAccepted(w) \/ CallFails(w) \/ CallNotRecorded(w)
  PROVE  Jobs!JobsNext \/ UNCHANGED Jobs!jobs
<1>1. call[w] # None /\ call' = [call EXCEPT ![w] = None]
  BY DEF CallAccepted, CallFails, CallNotRecorded, EndCall
<1>2. PICK o \in Operations : o = call[w]
  BY <1>1 DEF TypeOK
<1>3. state[o] \in {JobState(w), "DONE"} /\ JobState(w) \in {"RUNNING", "WAITING_RETRY"}
  BY <1>1, <1>2, CallsDiffer DEF CallsMatch
<1>4. o \in taken /\ taken \in SUBSET Operations
  BY <1>1, <1>2 DEF taken, TypeOK
<1>5. \A v \in Callers : call'[v] = IF v = w THEN None ELSE call[v]
  BY <1>1 DEF TypeOK
\* Another call of o could only be one of a job that is DONE.
<1>6. taken' \subseteq taken /\ taken \ taken' \subseteq {o}
  BY <1>2, <1>5 DEF taken
<1>7. state[o] = JobState(w) => taken' = taken \ {o}
  <2>1. SUFFICES ASSUME state[o] = JobState(w) PROVE taken' = taken \ {o}
    OBVIOUS
  <2>2. \A v \in Callers : call[v] = o => v = w
    BY <2>1, CallsDiffer
  <2> QED BY <1>2, <1>5, <2>2 DEF taken
<1>8. CASE UNCHANGED <<state, attempt>>
  <2>1. CASE taken' = taken
    BY <1>8, <2>1 DEF Jobs!jobs, taken
  <2>2. CASE taken' # taken
    <3>1. taken' = taken \ {o}
      BY <1>4, <1>6, <2>2
    <3>2. Jobs!Abandon({o})
      BY <1>4, <1>8, <3>1 DEF Jobs!Abandon, taken
    <3>3. \E S \in SUBSET Operations : Jobs!Abandon(S)
      BY <3>2
    <3> QED BY <3>3 DEF Jobs!JobsNext
  <2> QED BY <2>1, <2>2
<1>9. CASE CallAccepted(w)
  <2>1. state' = [state EXCEPT ![o] = "DONE"] /\ attempt' = attempt
    BY <1>2, <1>9 DEF CallAccepted
  <2>2. CASE state[o] = "DONE"
    <3>1. state' = state
      BY <2>1, <2>2 DEF TypeOK
    <3> QED BY <1>8, <2>1, <3>1
  <2>3. CASE state[o] # "DONE"
    <3>1. Jobs!Deliver(o)
      BY <1>3, <1>4, <1>7, <2>1, <2>3 DEF Jobs!Deliver, taken
    <3> QED BY <3>1 DEF Jobs!JobsNext
  <2> QED BY <2>2, <2>3
<1>10. CASE CallFails(w)
  <2>1. CASE state[o] # JobState(w)
    BY <1>2, <1>8, <1>10, <2>1 DEF CallFails, job
  <2>2. CASE state[o] = JobState(w)
    <3>1. /\ state' = [state EXCEPT ![o] = "WAITING_RETRY"]
          /\ attempt' = [attempt EXCEPT ![o] = @ + 1]
      BY <1>2, <1>10, <2>2 DEF CallFails
    <3>2. Jobs!Fail(o)
      BY <1>3, <1>4, <1>7, <2>2, <3>1 DEF Jobs!Fail, taken
    <3> QED BY <3>2 DEF Jobs!JobsNext
  <2> QED BY <2>1, <2>2
<1>11. CASE CallNotRecorded(w)
  BY <1>8, <1>11 DEF CallNotRecorded, job
<1> QED BY <1>9, <1>10, <1>11

\* Whatever is late, slow or not recorded, a job goes the way it goes in
\* PaymentService, for any number of operations and any times.
THEOREM ScheduleImplementsJobs == Spec => ImplementsJobs
<1>1. Init => Jobs!JobsInit
  BY DEF Init, Jobs!JobsInit
<1>2. ScheduleInv /\ [Next]_vars => [Jobs!JobsNext]_(Jobs!jobs)
  <2> SUFFICES ASSUME TypeOK, CallsMatch, [Next]_vars
               PROVE  Jobs!JobsNext \/ UNCHANGED Jobs!jobs
    BY DEF ScheduleInv
  <2>1. ASSUME NEW o \in Operations, Submit(o)
        PROVE  Jobs!JobsNext
    <3>1. Jobs!Submit(o)
      BY <2>1 DEF Submit, Jobs!Submit
    <3> QED BY <3>1 DEF Jobs!JobsNext
  <2>2. ASSUME NEW o \in Operations, ReceiveReceipt(o)
        PROVE  Jobs!JobsNext
    <3>1. Jobs!Settle(o)
      BY <2>2 DEF ReceiveReceipt, Jobs!Settle
    <3> QED BY <3>1 DEF Jobs!JobsNext
  <2>3. ASSUME NEW S \in SUBSET Operations, ClaimJobs(S)
        PROVE  Jobs!JobsNext \/ UNCHANGED Jobs!jobs
    <3>1. CASE S = {}
      <4>1. state' = state
        BY <2>3, <3>1 DEF ClaimJobs, TypeOK
      <4> QED BY <2>3, <4>1 DEF ClaimJobs, Jobs!jobs
    <3>2. CASE S # {}
      <4>1. Jobs!Claim(S)
        BY <2>3, <3>2 DEF ClaimJobs, Jobs!Claim
      <4> QED BY <4>1 DEF Jobs!JobsNext
    <3> QED BY <3>1, <3>2
  <2>4. CASE \E w \in Callers, o \in Operations : ProcessJob(w, o)
    BY <2>4, TurnIsJobStep
  <2>5. CASE \E w \in Callers : CallAccepted(w) \/ CallFails(w) \/ CallNotRecorded(w)
    BY <2>5, EndIsJobStep
  <2>6. CASE (\E w \in Callers : FindJobs(w) \/ FindFails(w)) \/ Tick \/ UNCHANGED vars
    BY <2>6 DEF FindJobs, FindFails, Tick, vars, job, Jobs!jobs
  <2>7. CASE \E w \in Callers, o \in Operations : ReadFails(w, o)
    BY <2>7 DEF ReadFails, job, Jobs!jobs
  <2> QED BY <2>1, <2>2, <2>3, <2>4, <2>5, <2>6, <2>7 DEF Next
<1> QED BY <1>1, <1>2, ScheduleKept, PTL DEF Spec, ImplementsJobs, Jobs!JobsSpec
=============================================================================
