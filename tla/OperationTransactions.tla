----------------------- MODULE OperationTransactions -----------------------
(***************************************************************************)
(* The statements of concurrent transactions on one operation, as          *)
(* PostgreSQL runs them at READ COMMITTED for the services: the steps that *)
(* PaymentService takes at once.  A transaction that changes an operation  *)
(* locks its row, reads it, reads the last sequence_no when it writes an   *)
(* event, and commits; one that creates it finds no row to lock, and its   *)
(* uncommitted insert makes every other insert of the same key wait.       *)
(* GET handlers and the workers' reads take no lock and write nothing.     *)
(***************************************************************************)
EXTENDS PaymentRows

CONSTANT Tx   \* transactions: one of each request or worker step that runs

Operation == CHOOSE o \in Operations : TRUE

ASSUME OneOperation == Operations = {Operation}
ASSUME TxIsNotNone == None \notin Tx

VARIABLES
  row,      \* the committed row
  lock,     \* the transaction that holds the row (or the uncommitted key), or None
  pc,       \* the statement a transaction runs next
  req,      \* what it was asked to do
  seen,     \* the row it read
  seq,      \* the sequence_no it chose for its event
  outcome

txVars == <<row, lock, pc, req, seen, seq, outcome>>

PC == {"idle", "get", "insert", "select", "sequence", "commit", "done"}
Outcome == {"none", "committed", "unchanged", "not_found", "conflict", "error", "aborted"}

Plain(kind) == [kind |-> kind, id |-> None, result |-> "none"]
CreateRequest == Plain("create")
LockingRequests ==
  {Plain(k) : k \in {"submit", "claim", "move_to_retry", "record_retry_failure"}}
  \cup {[kind |-> "complete_job", id |-> i, result |-> "none"] : i \in PaymentIds}
  \cup {[kind |-> "receipt", id |-> i, result |-> r] : i \in PaymentIds, r \in Result}

\* The rows a transaction may find: every stage of a delivery
Rows ==
  LET created == Create(NoRow)
      submitted == Submit(created)
      running == ClaimSendJob(submitted)
      waiting == MoveToRetry(running, "fits")
  IN {NoRow, created, submitted, running, waiting}
     \cup {CompleteJob(running, i, TRUE) : i \in PaymentIds}

\* The body each request runs on the row it read
Body(r, x) ==
  CASE r.kind = "create" /\ x.status = "ABSENT" -> Create(x)
    [] r.kind = "submit" /\ x.status = "CREATED" -> Submit(x)
    [] r.kind = "claim" -> ClaimSendJob(x)
    [] r.kind = "move_to_retry" -> MoveToRetry(x, "fits")
    [] r.kind = "record_retry_failure" -> RecordRetryFailure(x, "fits")
    [] r.kind = "complete_job" ->
         CompleteJob(x, r.id, x.providerPaymentId \in {None, r.id})
    [] r.kind = "receipt" /\ x.status # "ABSENT" /\ x.providerPaymentId \in {None, r.id} ->
         LET receipt == [op |-> Operation, id |-> r.id, result |-> r.result, size |-> "fits"]
         IN IF x.status = "PROCESSING" THEN CompleteOperation(x, receipt)
                                       ELSE HandleLateReceipt(x, receipt)
    [] OTHER -> x

WritesEvent(t) == Len(Body(req[t], seen[t]).events) > Len(seen[t].events)

-----------------------------------------------------------------------------
Init ==
  /\ row \in Rows
  /\ lock = None
  /\ pc = [t \in Tx |-> "idle"]
  /\ req = [t \in Tx |-> CreateRequest]
  /\ seen = [t \in Tx |-> NoRow]
  /\ seq = [t \in Tx |-> 0]
  /\ outcome = [t \in Tx |-> "none"]

End(t, result) ==
  /\ pc' = [pc EXCEPT ![t] = "done"]
  /\ outcome' = [outcome EXCEPT ![t] = result]
  /\ lock' = IF lock = t THEN None ELSE lock

Begin(t, r) ==
  /\ pc[t] = "idle"
  /\ pc' = [pc EXCEPT ![t] = IF r = CreateRequest THEN "get" ELSE "select"]
  /\ req' = [req EXCEPT ![t] = r]
  /\ UNCHANGED <<row, lock, seen, seq, outcome>>

\* OperationService.exists_of_throw_exception: session.get, without a lock
GetOperation(t) ==
  /\ pc[t] = "get"
  /\ \/ /\ row.status # "ABSENT"
        /\ End(t, "conflict")
     \/ /\ row.status = "ABSENT"
        /\ pc' = [pc EXCEPT ![t] = "insert"]
        /\ UNCHANGED <<lock, outcome>>
  /\ UNCHANGED <<row, req, seen, seq>>

\* Mutant of InsertOperation: max(sequence_no) of no event is used as it is.
InsertWithoutFirstSequence(t) ==
  /\ pc[t] = "insert"
  /\ lock = None /\ row.status = "ABSENT"
  /\ lock' = t
  /\ seen' = [seen EXCEPT ![t] = row]
  /\ seq' = [seq EXCEPT ![t] = None]
  /\ pc' = [pc EXCEPT ![t] = "commit"]
  /\ UNCHANGED <<row, req, outcome>>

\* The query for the last sequence_no in create_event flushes the session: the
\* INSERT waits for whoever inserts the same key, and fails if it committed.
\* Only the commit is inside the try that turns IntegrityError into a 409.
InsertOperation(t) ==
  /\ pc[t] = "insert"
  /\ lock = None
  /\ \/ /\ row.status # "ABSENT"
        /\ End(t, "error")
        /\ UNCHANGED <<seen, seq>>
     \/ /\ row.status = "ABSENT"
        /\ lock' = t
        /\ seen' = [seen EXCEPT ![t] = row]
        /\ seq' = [seq EXCEPT ![t] = 1]
        /\ pc' = [pc EXCEPT ![t] = "commit"]
        /\ UNCHANGED outcome
  /\ UNCHANGED <<row, req>>

\* Mutant of SelectForUpdate: a plain SELECT.
SelectWithoutLock(t) ==
  /\ pc[t] = "select"
  /\ \/ /\ row.status = "ABSENT"
        /\ End(t, "not_found")
        /\ UNCHANGED seen
     \/ /\ row.status # "ABSENT"
        /\ seen' = [seen EXCEPT ![t] = row]
        /\ pc' = [pc EXCEPT ![t] = "sequence"]
        /\ UNCHANGED <<lock, outcome>>
  /\ UNCHANGED <<row, req, seq>>

\* SELECT ... FOR UPDATE: waits for the lock and reads what its last holder
\* committed; it does not see, and does not wait for, an uncommitted insert.
SelectForUpdate(t) ==
  /\ pc[t] = "select"
  /\ \/ /\ row.status = "ABSENT"
        /\ End(t, "not_found")
        /\ UNCHANGED seen
     \/ /\ row.status # "ABSENT"
        /\ lock = None
        /\ lock' = t
        /\ seen' = [seen EXCEPT ![t] = row]
        /\ pc' = [pc EXCEPT ![t] = "sequence"]
        /\ UNCHANGED outcome
  /\ UNCHANGED <<row, req, seq>>

\* EventService._get_next_sequence_no, when the body writes an event
ReadSequence(t) ==
  /\ pc[t] = "sequence"
  /\ pc' = [pc EXCEPT ![t] = "commit"]
  /\ seq' = IF WritesEvent(t) THEN [seq EXCEPT ![t] = Len(row.events) + 1] ELSE seq
  /\ UNCHANGED <<row, lock, req, seen, outcome>>

\* The flush and COMMIT: (operation_id, sequence_no) of events is unique
Commit(t) ==
  /\ pc[t] = "commit"
  /\ LET new == Body(req[t], seen[t]) IN
     \/ /\ WritesEvent(t) /\ seq[t] # Len(row.events) + 1
        /\ row' = row
        /\ End(t, "error")
     \/ /\ WritesEvent(t) /\ seq[t] = Len(row.events) + 1
        /\ row' = [new EXCEPT !.events = Append(row.events, new.events[Len(new.events)])]
        /\ End(t, "committed")
     \/ /\ ~ WritesEvent(t)
        /\ row' = IF new = seen[t] THEN row ELSE [new EXCEPT !.events = row.events]
        /\ End(t, IF new = seen[t] THEN "unchanged" ELSE "committed")
  /\ UNCHANGED <<req, seen, seq>>

\* A lost connection, a failed statement or the end of the process rolls back.
Abort(t) ==
  /\ pc[t] \notin {"idle", "done"}
  /\ End(t, "aborted")
  /\ UNCHANGED <<row, req, seen, seq>>

\* All transactions have ended; without this step a transaction that waits for
\* ever would not show as a deadlock.
Finished == (\A t \in Tx : pc[t] = "done") /\ UNCHANGED txVars

Step(t) ==
  \/ GetOperation(t) \/ InsertOperation(t) \/ SelectForUpdate(t)
  \/ ReadSequence(t) \/ Commit(t)

Next ==
  \/ \E t \in Tx : \/ \E r \in {CreateRequest} \cup LockingRequests : Begin(t, r)
                   \/ Step(t)
                   \/ Abort(t)
  \/ Finished

TxSpec == Init /\ [][Next]_txVars

-----------------------------------------------------------------------------
(* Properties *)

TypeOK ==
  /\ row \in Row
  /\ lock \in Tx \cup {None}
  /\ pc \in [Tx -> PC]
  /\ req \in [Tx -> {CreateRequest} \cup LockingRequests]
  /\ seen \in [Tx -> Row]
  /\ seq \in [Tx -> Nat]
  /\ outcome \in [Tx -> Outcome]

\* Row-level atomicity, on which PaymentService rests: whatever statements
\* interleave, the committed row only changes by one whole body of one request,
\* run on the row that was committed just before.
CommitsAreBodies ==
  [][\E r \in {CreateRequest} \cup LockingRequests : row' = Body(r, row)]_row

\* Of any number of concurrent submits, at most one answers CREATED and writes a job.
SubmitCreatesOnce ==
  \A t, u \in Tx :
    /\ req[t].kind = "submit" /\ outcome[t] = "committed"
    /\ req[u].kind = "submit" /\ outcome[u] = "committed"
    => t = u

\* The row lock makes the sequence numbers of events unique: a transaction on an
\* existing operation never meets the unique constraint of the events table.
LockedNeverFails ==
  \A t \in Tx : outcome[t] = "error" => req[t] = CreateRequest

\* README.md, POST /operations: creating an operation that exists answers 409.
CreateConflictIs409 ==
  \A t \in Tx : req[t] = CreateRequest => outcome[t] # "error"
=============================================================================
