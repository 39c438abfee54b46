-------------------- MODULE OperationTransactionsProofs --------------------
(***************************************************************************)
(* The row lock makes every transaction one step on the committed row, for *)
(* any number of transactions: the atomicity that PaymentService takes for *)
(* granted.                                                                *)
(***************************************************************************)
EXTENDS OperationTransactions, PaymentRowsProofs

AllRequests == {CreateRequest} \cup LockingRequests

\* Whoever is between its lock and its commit holds the row, has read the row
\* that is committed, and has the next sequence_no.
HoldsRow(t) ==
  /\ lock = t
  /\ seen[t] = row
  /\ pc[t] = "commit" /\ WritesEvent(t) => seq[t] = Len(row.events) + 1

TxInv ==
  /\ TypeOK
  /\ RowOK(row)
  /\ \A t \in Tx : pc[t] \in {"sequence", "commit"} => HoldsRow(t)
  /\ \A t \in Tx : pc[t] # "done" => outcome[t] = "none"
  /\ \A t \in Tx : pc[t] \in {"get", "insert"} => req[t] = CreateRequest
  /\ LockedNeverFails
  /\ \A t \in Tx : req[t].kind = "submit" /\ outcome[t] = "committed" =>
       row.status \notin {"ABSENT", "CREATED"}
  /\ SubmitCreatesOnce

-----------------------------------------------------------------------------
(* Bodies *)

\* y has one event more than x, at the end.
AddsEvent(x, y) ==
  /\ Len(y.events) = Len(x.events) + 1
  /\ y.events = Append(x.events, y.events[Len(y.events)])

\* EventService.create_event adds an event.
LEMMA CreateEventAdds ==
  ASSUME NEW x \in Row, NEW y, NEW type, NEW from, NEW to,
         y.events = CreateEvent(x, type, from, to)
  PROVE  AddsEvent(x, y)
<1> DEFINE e == [type |-> type, from |-> from, to |-> to]
<1>1. x.events \in Seq(Event \cup {e}) /\ y.events = Append(x.events, e)
  BY DEF CreateEvent, Row
<1> HIDE DEF e
<1>2. Len(y.events) = Len(x.events) + 1 /\ y.events[Len(y.events)] = e
  BY <1>1
<1> QED BY <1>1, <1>2 DEF AddsEvent

\* A body of a request keeps a row RowOK, writes at most one event, and never
\* takes the status back.
LEMMA BodyOK ==
  ASSUME NEW r \in AllRequests, NEW x, RowOK(x), NEW y, y = Body(r, x)
  PROVE  /\ RowOK(y)
         /\ y.events = x.events \/ AddsEvent(x, y)
         /\ x.status \notin {"ABSENT", "CREATED"} => y.status \notin {"ABSENT", "CREATED"}
         /\ r.kind = "submit" /\ y # x => x.status = "CREATED" /\ y.status = "PROCESSING"
<1> DEFINE receipt == [op |-> Operation, id |-> r.id, result |-> r.result, size |-> "fits"]
           storable == x.providerPaymentId \in {None, r.id}
<1>1. x \in Row
  BY DEF RowOK
<1>2. CASE y = x
  BY <1>2
<1>3. CASE r.kind = "create" /\ x.status = "ABSENT" /\ y = Create(x)
  <2>1. RowOK(y)
    BY <1>3, CreateOK
  <2>2. AddsEvent(x, y)
    <3>1. y.events = CreateEvent(x, "CREATED", "null", "CREATED")
      BY <1>1, <1>3 DEF Create, Row
    <3> QED BY <1>1, <3>1, CreateEventAdds
  <2> QED BY <1>3, <2>1, <2>2
<1>4. CASE r.kind = "submit" /\ x.status = "CREATED" /\ y = Submit(x)
  <2>1. RowOK(y)
    BY <1>4, SubmitOK
  <2>2. y.status = "PROCESSING" /\ AddsEvent(x, y)
    <3>1. /\ y.status = "PROCESSING"
          /\ y.events = CreateEvent(x, "SUBMIT_REQUESTED", "CREATED", "PROCESSING")
      BY <1>1, <1>4 DEF Submit, Row
    <3> QED BY <1>1, <3>1, CreateEventAdds
  <2> QED BY <1>4, <2>1, <2>2
<1>5. CASE r.kind = "claim" /\ y = ClaimSendJob(x)
  <2>1. RowOK(y)
    BY <1>5, ClaimSendJobOK
  <2>2. y.events = x.events /\ y.status = x.status
    BY <1>1, <1>5 DEF ClaimSendJob, Row
  <2> QED BY <1>5, <2>1, <2>2
<1>6. CASE \/ r.kind = "move_to_retry" /\ y = MoveToRetry(x, "fits")
           \/ r.kind = "record_retry_failure" /\ y = RecordRetryFailure(x, "fits")
  <2>1. RowOK(y)
    BY <1>6, FailureOK
  <2>2. y.events = x.events /\ y.status = x.status
    BY <1>1, <1>6 DEF MoveToRetry, RecordRetryFailure, Row
  <2> QED BY <1>6, <2>1, <2>2
<1>7. CASE r.kind = "complete_job" /\ y = CompleteJob(x, r.id, storable)
  <2>1. r.id \in PaymentIds
    BY <1>7 DEF AllRequests, LockingRequests, CreateRequest, Plain
  <2>2. RowOK(y)
    <3>1. storable \in BOOLEAN
      OBVIOUS
    <3> HIDE DEF storable
    <3> QED BY <1>7, <2>1, <3>1, CompleteJobOK
  <2>3. y.events = x.events /\ y.status = x.status
    BY <1>1, <1>7 DEF CompleteJob, Row
  <2> QED BY <1>7, <2>2, <2>3
<1>8. CASE r.kind = "receipt" /\ x.status = "PROCESSING" /\ y = CompleteOperation(x, receipt)
  <2>1. receipt \in Receipt /\ receipt.result \in Result
    BY <1>8, OneOperation DEF AllRequests, LockingRequests, CreateRequest, Plain, Receipt, TextSize
  <2>2. RowOK(y)
    BY <1>8, <2>1, CompleteOperationOK
  <2> HIDE DEF receipt
  <2>3. y.status = receipt.result /\ AddsEvent(x, y)
    <3> DEFINE type == IF receipt.result = "COMPLETED" THEN "RECEIPT_COMPLETED"
                                                       ELSE "RECEIPT_REJECTED"
    <3>1. /\ y.status = receipt.result
          /\ y.events = CreateEvent(x, type, x.status, receipt.result)
      BY <1>1, <1>8 DEF CompleteOperation, Row
    <3> QED BY <1>1, <3>1, CreateEventAdds
  <2> QED BY <1>8, <2>1, <2>2, <2>3 DEF Result
<1>9. CASE r.kind = "receipt" /\ x.status # "PROCESSING" /\ y = HandleLateReceipt(x, receipt)
           /\ x.status # "ABSENT"
  <2>1. receipt \in Receipt
    BY <1>9, OneOperation DEF AllRequests, LockingRequests, CreateRequest, Plain, Receipt, TextSize
  <2>2. RowOK(y)
    BY <1>9, <2>1, HandleLateReceiptOK
  <2> HIDE DEF receipt
  <2>3. y.status = x.status /\ (y.events = x.events \/ AddsEvent(x, y))
    <3>1. /\ y.status = x.status
          /\ \/ y.events = x.events
             \/ y.events = CreateEvent(x, "RECEIPT_IGNORED", x.status, x.status)
      BY <1>1, <1>9 DEF HandleLateReceipt, Row
    <3> QED BY <1>1, <3>1, CreateEventAdds
  <2> QED BY <1>9, <2>2, <2>3
<1>10. r.kind \in {"create", "submit", "claim", "move_to_retry", "record_retry_failure",
                   "complete_job", "receipt"}
  BY DEF AllRequests, LockingRequests, CreateRequest, Plain
<1>11. CASE r.kind = "create"
  BY <1>2, <1>3, <1>11 DEF Body
<1>12. CASE r.kind = "submit"
  BY <1>2, <1>4, <1>12 DEF Body
<1>13. CASE r.kind = "claim"
  BY <1>5, <1>13 DEF Body
<1>14. CASE r.kind \in {"move_to_retry", "record_retry_failure"}
  BY <1>6, <1>14 DEF Body
<1>15. CASE r.kind = "complete_job"
  BY <1>7, <1>15 DEF Body
<1>16. CASE r.kind = "receipt"
  BY <1>2, <1>8, <1>9, <1>16 DEF Body
<1> QED BY <1>10, <1>11, <1>12, <1>13, <1>14, <1>15, <1>16

\* What Commit writes is the body, for the row that was read is the row that
\* is committed.
LEMMA CommitWritesBody ==
  ASSUME TxInv, NEW t \in Tx, Commit(t)
  PROVE  /\ lock = t /\ seen[t] = row /\ row' = Body(req[t], row)
         /\ pc' = [pc EXCEPT ![t] = "done"] /\ lock' = None
         /\ \/ outcome' = [outcome EXCEPT ![t] = "committed"] /\ row' # row
            \/ outcome' = [outcome EXCEPT ![t] = "unchanged"]
         /\ UNCHANGED <<req, seen, seq>>
<1> DEFINE new == Body(req[t], row)
<1>1. pc[t] = "commit" /\ HoldsRow(t) /\ RowOK(row) /\ req[t] \in AllRequests /\ t # None
  BY TxIsNotNone DEF Commit, TxInv, TypeOK, AllRequests
<1>2. /\ lock = t /\ seen[t] = row
      /\ WritesEvent(t) => seq[t] = Len(row.events) + 1
      /\ WritesEvent(t) <=> Len(new.events) > Len(row.events)
  BY <1>1 DEF HoldsRow, WritesEvent
<1>3. RowOK(new) /\ (new.events = row.events \/ AddsEvent(row, new))
  <2>1. new = Body(req[t], row)
    OBVIOUS
  <2> HIDE DEF new
  <2> QED BY <1>1, <2>1, BodyOK
<1> HIDE DEF new
<1>4. new \in Row /\ row \in Row
  BY <1>1, <1>3 DEF RowOK
<1>5. [new EXCEPT !.events = new.events] = new
  BY <1>4 DEF Row
<1>6. Len(row.events) \in Nat /\ Len(new.events) \in Nat
  BY <1>4 DEF Row
<1>7. CASE WritesEvent(t)
  <2>1. AddsEvent(row, new)
    BY <1>2, <1>3, <1>6, <1>7
  <2>2. [new EXCEPT !.events = Append(row.events, new.events[Len(new.events)])] = new
    BY <1>5, <2>1 DEF AddsEvent
  <2>3. row' = new /\ End(t, "committed")
    BY <1>2, <1>7, <2>2 DEF Commit, new
  <2>4. new # row
    BY <1>6, <2>1 DEF AddsEvent
  <2> QED BY <1>2, <2>3, <2>4 DEF Commit, End, new
<1>8. CASE ~ WritesEvent(t)
  <2>1. new.events = row.events
    BY <1>2, <1>3, <1>6, <1>8 DEF AddsEvent
  <2>2. [new EXCEPT !.events = row.events] = new
    BY <1>5, <2>1
  <2>3. row' = new /\ End(t, IF new = row THEN "unchanged" ELSE "committed")
    BY <1>2, <1>8, <2>2 DEF Commit, new
  <2> QED BY <1>2, <2>3 DEF Commit, End, new
<1> QED BY <1>7, <1>8

\* Every step keeps TxInv.
LEMMA TxInvStep ==
  ASSUME TxInv, [Next]_txVars
  PROVE  TxInv'
<1> USE DEF HoldsRow
<1>1. ASSUME NEW t \in Tx, NEW r \in AllRequests, Begin(t, r)
      PROVE  TxInv'
  <2>1. TypeOK'
    BY <1>1 DEF TxInv, TypeOK, Begin, AllRequests, PC
  <2>2. \A u \in Tx : pc'[u] \in {"sequence", "commit"} =>
          pc'[u] = pc[u] /\ WritesEvent(u)' = WritesEvent(u)
    BY <1>1 DEF TxInv, TypeOK, Begin, WritesEvent
  <2>3. outcome[t] = "none"
    BY <1>1 DEF TxInv, Begin
  <2> QED BY <1>1, <2>1, <2>2, <2>3
      DEF TxInv, TypeOK, Begin, LockedNeverFails, SubmitCreatesOnce
\* A transaction that ends without a commit leaves the others as they were.
<1>2. ASSUME NEW t \in Tx, NEW result \in Outcome \ {"committed"}, End(t, result),
             pc[t] \notin {"idle", "done"},
             result = "error" => req[t] = CreateRequest,
             UNCHANGED <<row, req, seen, seq>>
      PROVE  TxInv'
  <2>1. TypeOK'
    BY <1>2 DEF TxInv, TypeOK, End, PC, Outcome
  <2>2. \A u \in Tx : WritesEvent(u)' = WritesEvent(u)
    BY <1>2 DEF WritesEvent
  <2> QED BY <1>2, <2>1, <2>2 DEF TxInv, TypeOK, End, LockedNeverFails, SubmitCreatesOnce
\* A transaction that goes on leaves the others as they were.
<1>3. ASSUME NEW t \in Tx, pc[t] \notin {"idle", "done"}, NEW next \in PC \ {"idle", "done"},
             pc' = [pc EXCEPT ![t] = next],
             UNCHANGED <<row, req, outcome>>, TypeOK',
             \A u \in Tx \ {t} : seen'[u] = seen[u] /\ seq'[u] = seq[u] /\ (lock = u => lock' = u),
             next \in {"sequence", "commit"} => HoldsRow(t)',
             next \in {"get", "insert"} => req[t] = CreateRequest
      PROVE  TxInv'
  <2>1. \A u \in Tx \ {t} : WritesEvent(u)' = WritesEvent(u)
    BY <1>3 DEF WritesEvent
  <2> QED BY <1>3, <2>1 DEF TxInv, TypeOK, LockedNeverFails, SubmitCreatesOnce
<1>4. ASSUME NEW t \in Tx, GetOperation(t)
      PROVE  TxInv'
  <2>1. CASE End(t, "conflict")
    BY <1>2, <1>4, <2>1 DEF GetOperation, Outcome
  <2>2. CASE pc' = [pc EXCEPT ![t] = "insert"] /\ UNCHANGED <<lock, outcome>>
    <3>1. TypeOK' /\ req[t] = CreateRequest
      BY <1>4, <2>2 DEF GetOperation, TxInv, TypeOK, PC
    <3> QED BY <1>3, <1>4, <2>2, <3>1 DEF GetOperation, PC
  <2> QED BY <1>4, <2>1, <2>2 DEF GetOperation
<1>5. ASSUME NEW t \in Tx, InsertOperation(t)
      PROVE  TxInv'
  <2>1. req[t] = CreateRequest
    BY <1>5 DEF TxInv, InsertOperation
  <2>2. CASE row.status # "ABSENT"
    BY <1>2, <1>5, <2>1, <2>2 DEF InsertOperation, Outcome
  <2>3. CASE row.status = "ABSENT"
    <3>1. /\ lock = None /\ lock' = t /\ seen' = [seen EXCEPT ![t] = row]
          /\ seq' = [seq EXCEPT ![t] = 1] /\ pc' = [pc EXCEPT ![t] = "commit"]
          /\ UNCHANGED <<row, req, outcome>> /\ pc[t] = "insert"
      BY <1>5, <2>3 DEF InsertOperation
    <3>2. TypeOK'
      BY <3>1 DEF TxInv, TypeOK, PC
    <3>3. row.events = <<>>
      BY <2>3 DEF TxInv, RowOK, HistoryExplainsStatus
    <3>4. HoldsRow(t)'
      BY <3>1, <3>3 DEF TxInv, TypeOK
    <3>5. \A u \in Tx \ {t} : seen'[u] = seen[u] /\ seq'[u] = seq[u] /\ (lock = u => lock' = u)
      BY <3>1, TxIsNotNone DEF TxInv, TypeOK
    <3> QED BY <1>3, <2>1, <3>1, <3>2, <3>4, <3>5 DEF PC
  <2> QED BY <2>2, <2>3
<1>6. ASSUME NEW t \in Tx, SelectForUpdate(t)
      PROVE  TxInv'
  <2>1. CASE row.status = "ABSENT"
    BY <1>2, <1>6, <2>1 DEF SelectForUpdate, Outcome
  <2>2. CASE row.status # "ABSENT"
    <3>1. /\ lock = None /\ lock' = t /\ seen' = [seen EXCEPT ![t] = row]
          /\ pc' = [pc EXCEPT ![t] = "sequence"]
          /\ UNCHANGED <<row, req, seq, outcome>> /\ pc[t] = "select"
      BY <1>6, <2>2 DEF SelectForUpdate
    <3>2. TypeOK' /\ HoldsRow(t)'
      BY <3>1 DEF TxInv, TypeOK, PC
    <3>3. \A u \in Tx \ {t} : seen'[u] = seen[u] /\ seq'[u] = seq[u] /\ (lock = u => lock' = u)
      BY <3>1, TxIsNotNone DEF TxInv, TypeOK
    <3> QED BY <1>3, <3>1, <3>2, <3>3 DEF PC
  <2> QED BY <2>1, <2>2
<1>7. ASSUME NEW t \in Tx, ReadSequence(t)
      PROVE  TxInv'
  <2>1. /\ pc[t] = "sequence" /\ pc' = [pc EXCEPT ![t] = "commit"]
        /\ lock = t /\ seen[t] = row /\ Len(row.events) + 1 \in Nat
        /\ UNCHANGED <<row, lock, req, seen, outcome>>
    BY <1>7 DEF ReadSequence, TxInv, RowOK, Row
  <2>2. WritesEvent(t)' = WritesEvent(t)
    BY <2>1 DEF WritesEvent
  <2>3. seq' = IF WritesEvent(t) THEN [seq EXCEPT ![t] = Len(row.events) + 1] ELSE seq
    BY <1>7 DEF ReadSequence
  <2>4. TypeOK' /\ HoldsRow(t)'
    BY <2>1, <2>2, <2>3 DEF TxInv, TypeOK, PC
  <2> QED BY <1>3, <2>1, <2>3, <2>4 DEF PC, TxInv, TypeOK
<1>8. ASSUME NEW t \in Tx, Commit(t)
      PROVE  TxInv'
  <2>1. /\ lock = t /\ seen[t] = row /\ row' = Body(req[t], row)
        /\ pc' = [pc EXCEPT ![t] = "done"] /\ lock' = None
        /\ \/ outcome' = [outcome EXCEPT ![t] = "committed"] /\ row' # row
           \/ outcome' = [outcome EXCEPT ![t] = "unchanged"]
        /\ UNCHANGED <<req, seen, seq>>
    BY <1>8, CommitWritesBody
  <2>2. RowOK(row) /\ req[t] \in AllRequests
    BY DEF TxInv, TypeOK, AllRequests
  <2>3. /\ RowOK(row')
        /\ row.status \notin {"ABSENT", "CREATED"} => row'.status \notin {"ABSENT", "CREATED"}
        /\ req[t].kind = "submit" /\ row' # row => row.status = "CREATED" /\ row'.status = "PROCESSING"
    BY <2>1, <2>2, BodyOK
  <2>4. TypeOK'
    BY <2>1, <2>3 DEF TxInv, TypeOK, RowOK, PC, Outcome
  <2>5. \A u \in Tx : pc'[u] \notin {"sequence", "commit"}
    BY <2>1 DEF TxInv, TypeOK
  <2>6. \A u \in Tx : u # t => outcome'[u] = outcome[u]
    BY <2>1 DEF TxInv, TypeOK
  <2>7. outcome'[t] \in {"committed", "unchanged"} /\ (outcome'[t] = "committed" => row' # row)
    BY <2>1 DEF TxInv, TypeOK
  <2>8. LockedNeverFails' /\ SubmitCreatesOnce'
    BY <2>1, <2>3, <2>6, <2>7 DEF TxInv, LockedNeverFails, SubmitCreatesOnce
  <2> QED BY <2>1, <2>3, <2>4, <2>5, <2>6, <2>7, <2>8 DEF TxInv, TypeOK
<1>9. ASSUME NEW t \in Tx, Abort(t)
      PROVE  TxInv'
  BY <1>2, <1>9 DEF Abort, Outcome
<1>10. CASE UNCHANGED txVars
  BY <1>10 DEF TxInv, TypeOK, txVars, WritesEvent, LockedNeverFails, SubmitCreatesOnce
<1> QED BY <1>1, <1>4, <1>5, <1>6, <1>7, <1>8, <1>9, <1>10 DEF Next, Step, Finished, AllRequests
\* The rows that Init offers are RowOK.
LEMMA RowsOK ==
  ASSUME NEW x \in Rows
  PROVE  RowOK(x)
<1> DEFINE created == Create(NoRow)
           submitted == Submit(created)
           running == ClaimSendJob(submitted)
           waiting == MoveToRetry(running, "fits")
<1>1. RowOK(created) /\ created.status = "CREATED"
  <2>1. RowOK(NoRow) /\ NoRow.status = "ABSENT"
    BY NoRowOK DEF NoRow
  <2>2. RowOK(created)
    BY <2>1, CreateOK
  <2> QED BY <2>2 DEF Create, NoRow
<1>2. RowOK(submitted)
  <2> HIDE DEF created
  <2> QED BY <1>1, SubmitOK
<1>3. RowOK(running)
  <2> HIDE DEF submitted
  <2> QED BY <1>2, ClaimSendJobOK
<1>4. RowOK(waiting) /\ \A i \in PaymentIds : RowOK(CompleteJob(running, i, TRUE))
  <2> HIDE DEF running
  <2>1. RowOK(waiting)
    BY <1>3, FailureOK
  <2>2. ASSUME NEW i \in PaymentIds
        PROVE  RowOK(CompleteJob(running, i, TRUE))
    BY <1>3, CompleteJobOK
  <2> QED BY <2>1, <2>2
<1>5. x \in {NoRow, created, submitted, running, waiting}
        \cup {CompleteJob(running, i, TRUE) : i \in PaymentIds}
  BY DEF Rows
<1> HIDE DEF created, submitted, running, waiting
<1> QED BY <1>1, <1>2, <1>3, <1>4, <1>5, NoRowOK

\* The invariant of every behaviour.
LEMMA TxInvAlways == TxSpec => []TxInv
<1>1. ASSUME Init
      PROVE  TxInv
  <2>1. RowOK(row) /\ RowOK(NoRow)
    BY <1>1, RowsOK, NoRowOK DEF Init
  <2>2. row \in Row /\ NoRow \in Row
    BY <2>1 DEF RowOK
  <2>3. TypeOK
    BY <1>1, <2>2 DEF Init, TypeOK, PC, Outcome
  <2> QED BY <1>1, <2>1, <2>3 DEF Init, TxInv, LockedNeverFails, SubmitCreatesOnce
<1> QED BY <1>1, TxInvStep, PTL DEF TxSpec

\* The variables of the transactions keep their types.
THEOREM TransactionsTypeCorrect == TxSpec => []TypeOK
<1>1. TxInv => TypeOK
  BY DEF TxInv
<1> QED BY <1>1, TxInvAlways, PTL

\* However many clients submit an operation at once, one of them creates its job.
THEOREM SubmitCreatesOnceAlways == TxSpec => []SubmitCreatesOnce
<1>1. TxInv => SubmitCreatesOnce
  BY DEF TxInv
<1> QED BY <1>1, TxInvAlways, PTL

\* No transaction on an existing operation meets the unique sequence_no.
THEOREM LockedNeverFailsAlways == TxSpec => []LockedNeverFails
<1>1. TxInv => LockedNeverFails
  BY DEF TxInv
<1> QED BY <1>1, TxInvAlways, PTL

\* The committed row changes by one whole body at a time, run on the row that
\* was committed: PaymentService may take a transaction as one step.
THEOREM CommitsAreBodiesAlways == TxSpec => CommitsAreBodies
<1> DEFINE OneBody == \E r \in AllRequests : row' = Body(r, row)
<1>1. ASSUME TxInv, [Next]_txVars, row' # row
      PROVE  OneBody
  <2>1. PICK t \in Tx : Commit(t)
    BY <1>1 DEF Next, Step, Begin, GetOperation, InsertOperation, SelectForUpdate,
      ReadSequence, Abort, Finished, txVars
  <2>2. row' = Body(req[t], row)
    BY <1>1, <2>1, CommitWritesBody
  <2>3. req[t] \in AllRequests
    BY <1>1 DEF TxInv, TypeOK, AllRequests
  <2> QED BY <2>2, <2>3
<1>2. TxInv /\ [Next]_txVars => [OneBody]_row
  BY <1>1
<1>3. OneBody <=> \E r \in {CreateRequest} \cup LockingRequests : row' = Body(r, row)
  BY DEF AllRequests
<1>4. CommitsAreBodies <=> [][OneBody]_row
  BY DEF CommitsAreBodies, AllRequests
<1> QED BY <1>2, <1>4, TxInvAlways, PTL DEF TxSpec

-----------------------------------------------------------------------------
(* The lock *)

\* Who holds the lock has no statement left that waits for it.
HolderRuns == lock # None => lock \in Tx /\ pc[lock] \in {"sequence", "commit"}

\* The lock goes to a transaction that runs on, and is let go at its end,
\* however it ends.
LEMMA HolderRunsStep ==
  ASSUME TxInv, HolderRuns, [Next]_txVars
  PROVE  HolderRuns'
<1> USE DEF TxInv, TypeOK
<1>1. ASSUME NEW t \in Tx, NEW result, End(t, result)
      PROVE  HolderRuns'
  BY <1>1 DEF End, HolderRuns
<1>2. ASSUME NEW t \in Tx, NEW r \in AllRequests, Begin(t, r)
      PROVE  HolderRuns'
  BY <1>2 DEF Begin, HolderRuns
<1>3. ASSUME NEW t \in Tx, lock' = lock \/ lock' = t,
             pc[t] \in {"get", "insert", "select", "sequence"}, NEW next,
             pc' = [pc EXCEPT ![t] = next],
             lock' = t => next \in {"sequence", "commit"}
      PROVE  HolderRuns'
  BY <1>3 DEF HolderRuns
<1>4. ASSUME NEW t \in Tx, GetOperation(t)
      PROVE  HolderRuns'
  BY <1>1, <1>4, TxIsNotNone DEF GetOperation, HolderRuns
<1>5. ASSUME NEW t \in Tx, InsertOperation(t) \/ SelectForUpdate(t) \/ ReadSequence(t)
      PROVE  HolderRuns'
  BY <1>1, <1>3, <1>5 DEF InsertOperation, SelectForUpdate, ReadSequence
<1>6. ASSUME NEW t \in Tx, Commit(t) \/ Abort(t)
      PROVE  HolderRuns'
  BY <1>1, <1>6 DEF Commit, Abort
<1>7. CASE UNCHANGED txVars
  BY <1>7 DEF txVars, HolderRuns
<1> QED BY <1>2, <1>4, <1>5, <1>6, <1>7 DEF Next, Step, Finished, AllRequests

\* No transaction that waits for the row holds it, and none that has ended: the
\* waiters of an operation wait for one transaction that runs on, so they never
\* wait for each other, whatever conflicts, errors and aborts there are.
THEOREM HolderRunsAlways == TxSpec => []HolderRuns
<1>1. Init => HolderRuns
  BY DEF Init, HolderRuns
<1> QED BY <1>1, HolderRunsStep, TxInvAlways, PTL DEF TxSpec
=============================================================================
