------------------------- MODULE OperationApiProofs -------------------------
(***************************************************************************)
(* What clients are answered, for any number of requests: the handlers run *)
(* the transactions of OperationTransactions, so its theorems hold of the  *)
(* API too, and answers agree with earlier answers.                        *)
(***************************************************************************)
EXTENDS OperationApi, OperationTransactionsProofs, WellFoundedInduction

-----------------------------------------------------------------------------
(* The API runs the transactions *)

\* Every step of the API is one statement of a transaction, or none.
LEMMA ApiStepIsTxStep ==
  ASSUME [NextApi]_allVars
  PROVE  [Next]_txVars
<1> USE DEF Next, Step
<1>1. ASSUME NEW t \in Tx, NEW d \in Decimal, RefuseRequest(t, d) \/ BeginCreate(t, d)
      PROVE  [Next]_txVars
  BY <1>1 DEF RefuseRequest, BeginCreate
<1>2. ASSUME NEW t \in Tx, NEW r \in LockingRequests, BeginOther(t, r)
      PROVE  [Next]_txVars
  BY <1>2 DEF BeginOther
<1>3. ASSUME NEW t \in Tx, Insert(t) \/ RunStatement(t) \/ CommitRow(t)
      PROVE  [Next]_txVars
  BY <1>3 DEF Insert, RunStatement, CommitRow
<1>4. ASSUME NEW t \in Tx, \/ AnswerError(t) \/ AnswerExisting(t) \/ RefreshAndAnswer(t)
                           \/ GetById(t) \/ GetForEvents(t) \/ GetEvents(t)
      PROVE  [Next]_txVars
  BY <1>4 DEF AnswerError, AnswerExisting, RefreshAndAnswer, GetById, GetForEvents, GetEvents
<1>5. CASE SendRequest \/ AllAnswered \/ UNCHANGED allVars
  BY <1>5 DEF SendRequest, AllAnswered, allVars, txVars
<1> QED BY <1>1, <1>2, <1>3, <1>4, <1>5 DEF NextApi

\* The handlers of the API run the transactions of OperationTransactions: what
\* holds of these holds of the API.
THEOREM ApiRunsTransactions == ApiSpec => TxSpec
<1>1. InitApi => Init
  BY DEF InitApi
<1>2. [NextApi]_allVars => [Next]_txVars
  BY ApiStepIsTxStep
<1> QED BY <1>1, <1>2, PTL DEF ApiSpec, TxSpec

-----------------------------------------------------------------------------
(* Histories and outcomes *)

\* An event of x led to the status s.
Explains(x, s) == \E i \in 1..Len(x.events) : x.events[i].to = s

\* What a transaction has read, and what it has achieved, the committed row shows.
TxFacts ==
  \A t \in Tx :
    /\ seen[t].status # "ABSENT" => Explains(row, seen[t].status)
    /\ \/ pc[t] = "sequence"
       \/ pc[t] = "commit" /\ req[t].kind # "create"
       \/ outcome[t] = "unchanged" /\ req[t].kind # "create"
       => seen[t].status # "ABSENT"
    /\ outcome[t] = "committed" => row.status # "ABSENT"

CreatesOnce ==
  \A t, u \in Tx :
    /\ req[t].kind = "create" /\ outcome[t] = "committed"
    /\ req[u].kind = "create" /\ outcome[u] = "committed"
    => t = u

\* A row explains its own status.
LEMMA StatusIsExplained ==
  ASSUME NEW x, RowOK(x), x.status # "ABSENT"
  PROVE  Explains(x, x.status)
<1>1. x.events # <<>> /\ x.events[Len(x.events)].to = x.status /\ x.events \in Seq(Event)
  BY DEF RowOK, HistoryExplainsStatus, Row
<1>2. Len(x.events) \in 1..Len(x.events)
  BY <1>1
<1> QED BY <1>1, <1>2 DEF Explains

\* A row that explains any status is there.
LEMMA AbsentExplainsNothing ==
  ASSUME NEW x, RowOK(x), NEW s, Explains(x, s)
  PROVE  x.status # "ABSENT"
BY DEF RowOK, HistoryExplainsStatus, Explains

\* A body makes a row explain no less; only a create changes an absent row.
LEMMA BodyExplains ==
  ASSUME NEW r \in AllRequests, NEW x, RowOK(x), NEW y, y = Body(r, x)
  PROVE  /\ \A s : Explains(x, s) => Explains(y, s)
         /\ x.status # "ABSENT" => y.status # "ABSENT"
         /\ r.kind = "create" /\ y # x => x.status = "ABSENT" /\ y.status # "ABSENT"
<1>1. RowOK(y) /\ (y.events = x.events \/ AddsEvent(x, y)) /\ x \in Row /\ y \in Row
  BY BodyOK DEF RowOK
<1>2. ASSUME NEW s, Explains(x, s)
      PROVE  Explains(y, s)
  <2>1. PICK i \in 1..Len(x.events) : x.events[i].to = s
    BY <1>2 DEF Explains
  <2>2. CASE y.events = x.events
    BY <2>1, <2>2 DEF Explains
  <2>3. CASE AddsEvent(x, y)
    <3> DEFINE e == y.events[Len(y.events)]
    <3>1. x.events \in Seq(Event) /\ y.events \in Seq(Event)
      BY <1>1 DEF Row
    <3>2. Len(y.events) = Len(x.events) + 1 /\ y.events = Append(x.events, e)
      BY <2>3 DEF AddsEvent
    <3>3. e \in Event
      BY <3>1, <3>2
    <3> HIDE DEF e
    <3>4. y.events[i] = x.events[i] /\ i \in 1..Len(y.events)
      BY <2>1, <3>1, <3>2, <3>3
    <3> QED BY <2>1, <3>4 DEF Explains
  <2> QED BY <1>1, <2>2, <2>3
<1>3. x.status # "ABSENT" => y.status # "ABSENT"
  <2> SUFFICES ASSUME x.status # "ABSENT" PROVE y.status # "ABSENT"
    OBVIOUS
  <2>1. Explains(y, x.status)
    BY <1>2, StatusIsExplained
  <2> QED BY <1>1, <2>1, AbsentExplainsNothing
<1>4. ASSUME r.kind = "create", y # x
      PROVE  x.status = "ABSENT" /\ y.status # "ABSENT"
  <2>1. x.status = "ABSENT" /\ y = Create(x)
    BY <1>4 DEF Body
  <2> QED BY <1>1, <2>1 DEF Create, Row
<1> QED BY <1>2, <1>3, <1>4

\* What one step of the transactions does to the committed row.
LEMMA RowStep ==
  ASSUME TxInv, [Next]_txVars
  PROVE  /\ \A s : Explains(row, s) => Explains(row', s)
         /\ row.status # "ABSENT" => row'.status # "ABSENT"
<1>1. CASE row' = row
  BY <1>1
<1>2. CASE row' # row
  <2>1. PICK t \in Tx : Commit(t)
    BY <1>2 DEF Next, Step, Begin, GetOperation, InsertOperation, SelectForUpdate,
      ReadSequence, Abort, Finished, txVars
  <2>2. row' = Body(req[t], row) /\ RowOK(row) /\ req[t] \in AllRequests
    BY <2>1, CommitWritesBody DEF TxInv, TypeOK, AllRequests
  <2> QED BY <2>2, BodyExplains
<1> QED BY <1>1, <1>2

\* What it does to one transaction: it begins, goes on, or ends.
LEMMA TransactionStep ==
  ASSUME TxInv, [Next]_txVars, NEW u \in Tx
  PROVE  \/ UNCHANGED <<pc[u], req[u], seen[u], outcome[u]>>
         \/ pc[u] = "idle" /\ pc'[u] \in {"get", "select"} /\ UNCHANGED <<seen[u], outcome[u]>>
         \/ /\ pc[u] \notin {"idle", "done"} /\ pc'[u] \notin {"idle", "done"}
            /\ UNCHANGED <<req[u], outcome[u]>>
            /\ \/ seen'[u] = seen[u] /\ pc'[u] # "sequence"
               \/ seen'[u] = row
            /\ pc'[u] = "sequence" => row.status # "ABSENT"
            /\ \/ pc'[u] # "commit"
               \/ req[u].kind = "create"
               \/ pc[u] = "sequence" /\ seen'[u] = seen[u]
         \/ /\ pc[u] \notin {"idle", "done"} /\ pc'[u] = "done" /\ UNCHANGED <<req[u], seen[u]>>
            /\ outcome'[u] = "not_found" => row.status = "ABSENT"
            /\ outcome'[u] = "unchanged" => pc[u] = "commit"
            /\ outcome'[u] = "committed" => Commit(u) /\ row' # row
<1> USE DEF TxInv, TypeOK
<1>1. ASSUME NEW t \in Tx, NEW r \in AllRequests, Begin(t, r)
      PROVE  \/ UNCHANGED <<pc[u], req[u], seen[u], outcome[u]>>
             \/ pc[u] = "idle" /\ pc'[u] \in {"get", "select"} /\ UNCHANGED <<seen[u], outcome[u]>>
  BY <1>1 DEF Begin
<1>2. ASSUME NEW t \in Tx, t # u, GetOperation(t) \/ InsertOperation(t) \/ SelectForUpdate(t)
               \/ ReadSequence(t) \/ Commit(t) \/ Abort(t)
      PROVE  UNCHANGED <<pc[u], req[u], seen[u], outcome[u]>>
  BY <1>2 DEF GetOperation, InsertOperation, SelectForUpdate, ReadSequence, Commit, Abort, End
<1>3. CASE GetOperation(u)
  BY <1>3 DEF GetOperation, End
<1>4. CASE InsertOperation(u)
  BY <1>4 DEF InsertOperation, End, CreateRequest, Plain
<1>5. CASE SelectForUpdate(u)
  BY <1>5 DEF SelectForUpdate, End
<1>6. CASE ReadSequence(u)
  BY <1>6 DEF ReadSequence
<1>7. CASE Commit(u)
  <2>1. /\ pc' = [pc EXCEPT ![u] = "done"] /\ UNCHANGED <<req, seen, seq>>
        /\ \/ outcome' = [outcome EXCEPT ![u] = "committed"] /\ row' # row
           \/ outcome' = [outcome EXCEPT ![u] = "unchanged"]
    BY <1>7, CommitWritesBody
  <2>2. pc[u] = "commit"
    BY <1>7 DEF Commit
  <2> QED BY <1>7, <2>1, <2>2
<1>8. CASE Abort(u)
  BY <1>8 DEF Abort, End
<1>9. CASE UNCHANGED txVars
  BY <1>9 DEF txVars
<1> QED BY <1>1, <1>2, <1>3, <1>4, <1>5, <1>6, <1>7, <1>8, <1>9
    DEF Next, Step, Finished, AllRequests

\* A transaction that creates the operation finds none.
LEMMA CommittedCreate ==
  ASSUME TxInv, TxFacts, NEW u \in Tx, Commit(u), row' # row
  PROVE  /\ row'.status # "ABSENT"
         /\ req[u].kind = "create" => row.status = "ABSENT"
<1>1. row' = Body(req[u], row) /\ RowOK(row) /\ req[u] \in AllRequests /\ seen[u] = row
  BY CommitWritesBody DEF TxInv, TypeOK, AllRequests
<1>2. req[u].kind = "create" \/ row.status # "ABSENT"
  <2>1. pc[u] = "commit"
    BY DEF Commit
  <2> QED BY <1>1, <2>1 DEF TxFacts
<1> QED BY <1>1, <1>2, BodyExplains

\* Every step keeps TxFacts, and at most one create wins.
LEMMA TxFactsStep ==
  ASSUME TxInv, TxFacts, CreatesOnce, [Next]_txVars
  PROVE  TxFacts' /\ CreatesOnce'
<1>1. /\ \A s : Explains(row, s) => Explains(row', s)
      /\ row.status # "ABSENT" => row'.status # "ABSENT"
  BY RowStep
<1>2. RowOK(row)
  BY DEF TxInv
<1>3. ASSUME NEW t \in Tx, seen'[t].status # "ABSENT"
      PROVE  Explains(row', seen'[t].status)
  <2>1. seen'[t] = seen[t] \/ seen'[t] = row
    BY TransactionStep
  <2> QED BY <1>1, <1>2, <1>3, <2>1, StatusIsExplained DEF TxFacts
<1>4. ASSUME NEW t \in Tx,
             \/ pc'[t] = "sequence"
             \/ pc'[t] = "commit" /\ req'[t].kind # "create"
             \/ outcome'[t] = "unchanged" /\ req'[t].kind # "create"
      PROVE  seen'[t].status # "ABSENT"
  <2>1. pc[t] # "done" => outcome[t] = "none"
    BY DEF TxInv
  <2> QED BY <1>4, <2>1, TransactionStep DEF TxFacts
<1>5. ASSUME NEW t \in Tx, outcome'[t] = "committed"
      PROVE  row'.status # "ABSENT"
  <2>1. outcome[t] = "committed" \/ (Commit(t) /\ row' # row)
    BY <1>5, TransactionStep
  <2> QED BY <1>1, <2>1, CommittedCreate DEF TxFacts
<1>6. ASSUME NEW t \in Tx, req'[t].kind = "create", outcome'[t] = "committed"
      PROVE  \/ req[t].kind = "create" /\ outcome[t] = "committed"
             \/ /\ row.status = "ABSENT"
                /\ Commit(t)
  <2>1. \/ req[t].kind = "create" /\ outcome[t] = "committed"
        \/ req[t].kind = "create" /\ Commit(t) /\ row' # row
    <3>1. pc[t] # "done" => outcome[t] = "none"
      BY DEF TxInv
    <3> QED BY <1>6, <3>1, TransactionStep
  <2> QED BY <2>1, CommittedCreate
<1>7. CreatesOnce'
  <2>1. ASSUME NEW t \in Tx, NEW u \in Tx, Commit(t), Commit(u)
        PROVE  t = u
    BY <2>1, CommitWritesBody
  <2>2. ASSUME NEW t \in Tx, outcome[t] = "committed"
        PROVE  row.status # "ABSENT"
    BY <2>2 DEF TxFacts
  <2> QED BY <1>6, <2>1, <2>2 DEF CreatesOnce
<1> QED BY <1>3, <1>4, <1>5, <1>7 DEF TxFacts

\* The transactions keep to TxFacts in every behaviour.
LEMMA TxFactsAlways == TxSpec => [](TxInv /\ TxFacts /\ CreatesOnce)
<1>1. Init => TxFacts /\ CreatesOnce
  BY DEF Init, TxFacts, CreatesOnce, NoRow
<1>2. TxInv /\ TxFacts /\ CreatesOnce /\ [Next]_txVars => TxFacts' /\ CreatesOnce'
  BY TxFactsStep
<1> QED BY <1>1, <1>2, TxInvAlways, PTL DEF TxSpec

-----------------------------------------------------------------------------
(* Answers *)

ApiTypes ==
  /\ handler \in [Tx -> {"new", "transaction", "events", "answered"}]
  /\ answer = [t \in Tx |-> answer[t]]
  /\ told \subseteq OperationStatus
  /\ since \in [Tx -> SUBSET told]

\* A handler starts its transaction once and answers once.
AnswersOnce ==
  \A t \in Tx :
    /\ handler[t] = "new" => pc[t] = "idle"
    /\ handler[t] # "answered" => answer[t].code = 0 /\ answer[t].events = <<>>

\* A status that was told is in the history of the committed row.
ToldIsExplained == \A s \in told : Explains(row, s)

\* A transaction that creates the operation or finds none began before any
\* status was told.
AbsentBeforeTold ==
  \A t \in Tx :
    \/ outcome[t] = "not_found"
    \/ req[t].kind = "create" /\ outcome[t] = "committed"
    => since[t] = {}

\* Answers agree with outcomes, and so with what was told before.
AnswersAgree ==
  \A t \in Tx :
    /\ answer[t].code = 201 => req[t].kind = "create" /\ outcome[t] = "committed"
    /\ answer[t].code = 404 => since[t] = {}

ApiInv ==
  /\ ApiTypes /\ AnswersOnce /\ ToldIsExplained
  /\ AbsentBeforeTold /\ AnswersAgree /\ HistoryExplainsAnswers

\* A request that begins notes what was told before; one that goes on does not.
NotesTold(t) ==
  since' = since \/ (handler[t] = "new" /\ since' = [since EXCEPT ![t] = told])

\* A handler answers when it has read the row or its transaction has ended.
LEMMA RespondStep ==
  ASSUME TxInv, ApiInv, NEW t \in Tx, NEW a, Respond(t, a), handler[t] # "answered",
         NotesTold(t),
         a.code = 201 => req[t].kind = "create" /\ outcome[t] = "committed",
         a.code = 404 => outcome[t] = "not_found" \/ told = {},
         a.status # "none" => a.status \in OperationStatus /\ Explains(row, a.status),
         a.events = <<>> \/ a.events = row.events,
         UNCHANGED txVars
  PROVE  ApiInv'
<1>1. /\ handler' = [handler EXCEPT ![t] = "answered"]
      /\ answer' = [answer EXCEPT ![t] = a]
      /\ told' = told \cup ({a.status} \ {"none"})
      /\ row' = row /\ pc' = pc /\ req' = req /\ outcome' = outcome
  BY DEF Respond, txVars
<1>2. told \subseteq told' /\ told' \subseteq OperationStatus
  BY <1>1 DEF ApiInv, ApiTypes
<1>3. \A u \in Tx : since[u] \subseteq told
  BY DEF ApiInv, ApiTypes
<1>4. ApiTypes'
  BY <1>1, <1>2 DEF ApiInv, ApiTypes, NotesTold
<1>5. \A u \in Tx : /\ u # t => /\ handler'[u] = handler[u] /\ answer'[u] = answer[u]
                                /\ since'[u] = since[u]
                   /\ since'[u] \subseteq told
  BY <1>1, <1>3 DEF ApiInv, ApiTypes, NotesTold
<1>6. handler'[t] = "answered" /\ answer'[t] = a
  BY <1>1 DEF ApiInv, ApiTypes
<1>7. handler[t] = "new" => outcome[t] = "none"
  BY DEF ApiInv, AnswersOnce, TxInv
<1> USE DEF ApiInv
<1>8. HistoryExplainsAnswers'
  <2> SUFFICES ASSUME NEW u \in Tx, answer'[u].events # <<>>, NEW s \in since'[u]
               PROVE  \E i \in 1..Len(answer'[u].events) : answer'[u].events[i].to = s
    BY DEF HistoryExplainsAnswers
  <2>1. CASE u = t
    <3>1. answer'[u].events = row.events /\ s \in told
      BY <1>5, <1>6, <2>1
    <3> QED BY <3>1 DEF ToldIsExplained, Explains
  <2>2. CASE u # t
    BY <1>5, <2>2 DEF HistoryExplainsAnswers
  <2> QED BY <2>1, <2>2
<1>9. ToldIsExplained'
  BY <1>1 DEF ToldIsExplained
<1>10. AbsentBeforeTold'
  BY <1>1, <1>5, <1>7 DEF AbsentBeforeTold, NotesTold
<1>11. AnswersAgree'
  BY <1>1, <1>5, <1>6, <1>7 DEF AnswersAgree, AbsentBeforeTold, NotesTold
<1>12. AnswersOnce'
  BY <1>1, <1>5, <1>6 DEF AnswersOnce
<1> QED BY <1>4, <1>8, <1>9, <1>10, <1>11, <1>12

\* A statement of a transaction leaves the answers and what they rest on.
LEMMA StatementStep ==
  ASSUME TxInv, TxFacts, ApiInv, NEW t \in Tx, Insert(t) \/ RunStatement(t) \/ CommitRow(t)
  PROVE  ApiInv'
<1>1. UNCHANGED <<handler, answer, told, since>>
  BY DEF Insert, RunStatement, CommitRow, apiVars
<1>2. [Next]_txVars
  BY ApiStepIsTxStep DEF NextApi
<1>3. \A s \in told : Explains(row', s)
  BY <1>2, RowStep DEF ApiInv, ToldIsExplained
<1>4. row.status = "ABSENT" => told = {}
  BY AbsentExplainsNothing DEF ApiInv, ToldIsExplained, TxInv
<1>5. ASSUME NEW u \in Tx
      PROVE  \/ UNCHANGED <<req[u], outcome[u]>>
             \/ UNCHANGED outcome[u] /\ pc[u] = "idle"
             \/ /\ outcome[u] = "none" /\ req'[u] = req[u]
                /\ outcome'[u] = "not_found" => row.status = "ABSENT"
                /\ outcome'[u] = "committed" /\ req[u].kind = "create" => row.status = "ABSENT"
  <2>1. pc[u] # "done" => outcome[u] = "none"
    BY DEF TxInv
  <2>2. Commit(u) /\ row' # row /\ req[u].kind = "create" => row.status = "ABSENT"
    BY CommittedCreate
  <2> QED BY <1>2, <2>1, <2>2, TransactionStep
<1>6. ASSUME NEW u \in Tx
      PROVE  pc[u] = "idle" => pc'[u] = "idle" /\ req'[u] = req[u]
  BY DEF TxInv, TypeOK, Insert, RunStatement, CommitRow, GetOperation, InsertOperation,
    SelectForUpdate, ReadSequence, Commit, Abort, End
<1>7. \A u \in Tx : since[u] \subseteq told
  BY DEF ApiInv, ApiTypes
<1> USE DEF ApiInv
<1>8. ApiTypes' /\ HistoryExplainsAnswers'
  BY <1>1 DEF ApiTypes, HistoryExplainsAnswers
<1>9. AnswersOnce'
  BY <1>1, <1>6 DEF AnswersOnce
<1>10. AbsentBeforeTold'
  BY <1>1, <1>4, <1>5, <1>6, <1>7 DEF AbsentBeforeTold
<1>11. AnswersAgree'
  <2>1. \A u \in Tx : answer[u].code = 201 => outcome[u] = "committed"
    BY DEF AnswersAgree
  <2> QED BY <1>1, <1>5, <1>6, <2>1 DEF AnswersAgree
<1>12. ToldIsExplained'
  BY <1>1, <1>3 DEF ToldIsExplained
<1> QED BY <1>8, <1>9, <1>10, <1>11, <1>12

\* A handler that begins a transaction has not answered.
LEMMA BeginStep ==
  ASSUME TxInv, ApiInv, NEW t \in Tx, NEW r \in AllRequests,
         handler[t] = "new", Begin(t, r),
         handler' = [handler EXCEPT ![t] = "transaction"],
         since' = [since EXCEPT ![t] = told],
         UNCHANGED <<answer, told>>
  PROVE  ApiInv'
<1> USE DEF ApiInv
<1>1. /\ row' = row /\ outcome' = outcome /\ outcome[t] = "none"
      /\ req' = [req EXCEPT ![t] = r]
      /\ \A u \in Tx \ {t} : pc'[u] = pc[u]
  BY DEF Begin, TxInv, TypeOK
<1>2. answer[t].code = 0 /\ answer[t].events = <<>>
  BY DEF AnswersOnce
<1>3. \A u \in Tx \ {t} :
        handler'[u] = handler[u] /\ since'[u] = since[u] /\ req'[u] = req[u]
  BY <1>1 DEF ApiTypes, TxInv, TypeOK
<1>4. ApiTypes' /\ handler'[t] = "transaction"
  BY DEF ApiTypes
<1>5. AnswersOnce'
  BY <1>1, <1>2, <1>3, <1>4 DEF AnswersOnce
<1>6. ToldIsExplained'
  BY <1>1 DEF ToldIsExplained
<1>7. AbsentBeforeTold'
  BY <1>1, <1>3 DEF AbsentBeforeTold
<1>8. AnswersAgree'
  BY <1>1, <1>2, <1>3 DEF AnswersAgree
<1>9. HistoryExplainsAnswers'
  <2> SUFFICES ASSUME NEW u \in Tx, answer[u].events # <<>>, NEW s \in since'[u]
               PROVE  \E i \in 1..Len(answer[u].events) : answer[u].events[i].to = s
    BY DEF HistoryExplainsAnswers
  <2> QED BY <1>2, <1>3 DEF HistoryExplainsAnswers
<1> QED BY <1>4, <1>5, <1>6, <1>7, <1>8, <1>9

\* Every step keeps ApiInv.
LEMMA ApiInvStep ==
  ASSUME TxInv, TxFacts, ApiInv, [NextApi]_allVars
  PROVE  ApiInv'
<1> USE DEF Answer, ErrorAnswer, NoAnswer
<1>1. ASSUME NEW t \in Tx, NEW d \in Decimal, RefuseRequest(t, d)
      PROVE  ApiInv'
  BY <1>1, RespondStep DEF RefuseRequest, NotesTold
<1>2. ASSUME NEW t \in Tx, NEW d \in Decimal, BeginCreate(t, d)
      PROVE  ApiInv'
  BY <1>2, BeginStep DEF BeginCreate, AllRequests
<1>3. ASSUME NEW t \in Tx, NEW r \in LockingRequests, BeginOther(t, r)
      PROVE  ApiInv'
  BY <1>3, BeginStep DEF BeginOther, AllRequests
<1>4. ASSUME NEW t \in Tx, Insert(t) \/ RunStatement(t) \/ CommitRow(t)
      PROVE  ApiInv'
  BY <1>4, StatementStep
<1>5. ASSUME NEW t \in Tx, AnswerError(t)
      PROVE  ApiInv'
  <2> DEFINE code == CASE outcome[t] = "conflict" -> 409
                       [] outcome[t] = "not_found" -> 404
                       [] OTHER -> 500
  <2>1. code # 201 /\ (code = 404 => outcome[t] = "not_found")
    OBVIOUS
  <2>2. /\ handler[t] # "answered" /\ Respond(t, ErrorAnswer(code))
        /\ UNCHANGED txVars /\ NotesTold(t)
    BY <1>5 DEF AnswerError, NotesTold
  <2> HIDE DEF code
  <2> QED BY <2>1, <2>2, RespondStep
<1>6. ASSUME NEW t \in Tx, AnswerExisting(t)
      PROVE  ApiInv'
  <2>1. /\ handler[t] # "answered" /\ Respond(t, Answer(200, seen[t].status, amount, <<>>))
        /\ UNCHANGED txVars /\ NotesTold(t)
        /\ req[t].kind = "submit" /\ outcome[t] = "unchanged"
    BY <1>6 DEF AnswerExisting, NotesTold
  <2>2. seen[t].status # "ABSENT" /\ Explains(row, seen[t].status)
    BY <2>1 DEF TxFacts
  <2>3. seen[t].status \in OperationStatus
    BY <2>2 DEF TxInv, TypeOK, Row
  <2> QED BY <2>1, <2>2, <2>3, RespondStep
<1>7. (row.status # "ABSENT" => row.status \in OperationStatus /\ Explains(row, row.status))
      /\ (row.status = "ABSENT" => told = {})
  BY StatusIsExplained, AbsentExplainsNothing
  DEF TxInv, TypeOK, Row, ApiInv, ToldIsExplained
<1>8. ASSUME NEW t \in Tx, RefreshAndAnswer(t)
      PROVE  ApiInv'
  <2>1. /\ handler[t] # "answered" /\ UNCHANGED txVars /\ NotesTold(t)
        /\ outcome[t] = "committed"
    BY <1>8 DEF RefreshAndAnswer, NotesTold
  <2>2. row.status # "ABSENT"
    BY <2>1 DEF TxFacts
  <2>3. CASE Respond(t, ErrorAnswer(500))
    BY <2>1, <2>3, RespondStep
  <2>4. CASE Respond(t, Answer(IF req[t].kind = "create" THEN 201 ELSE 202,
                               row.status, amount, <<>>))
    BY <1>7, <2>1, <2>2, <2>4, RespondStep
  <2> QED BY <1>8, <2>3, <2>4 DEF RefreshAndAnswer
<1>9. ASSUME NEW t \in Tx, GetById(t)
      PROVE  ApiInv'
  <2>1. /\ handler[t] = "new" /\ UNCHANGED txVars /\ NotesTold(t)
        /\ Respond(t, IF row.status = "ABSENT" THEN ErrorAnswer(404)
                      ELSE Answer(200, row.status, amount, <<>>))
    BY <1>9 DEF GetById, NotesTold
  <2>2. CASE row.status = "ABSENT"
    <3>1. Respond(t, ErrorAnswer(404)) /\ told = {}
      BY <1>7, <2>1, <2>2
    <3> QED BY <2>1, <3>1, RespondStep
  <2>3. CASE row.status # "ABSENT"
    <3>1. Respond(t, Answer(200, row.status, amount, <<>>))
      BY <2>1, <2>3
    <3> QED BY <1>7, <2>1, <2>3, <3>1, RespondStep
  <2> QED BY <2>2, <2>3
<1>10. ASSUME NEW t \in Tx, GetForEvents(t)
       PROVE  ApiInv'
  <2>1. handler[t] = "new" /\ UNCHANGED txVars /\ since' = [since EXCEPT ![t] = told]
    BY <1>10 DEF GetForEvents
  <2>2. CASE row.status = "ABSENT"
    <3>1. Respond(t, ErrorAnswer(404)) /\ told = {}
      BY <1>7, <1>10, <2>2 DEF GetForEvents
    <3>2. NotesTold(t)
      BY <2>1 DEF NotesTold
    <3> QED BY <2>1, <3>1, <3>2, RespondStep
  <2>3. CASE row.status # "ABSENT"
    <3>1. handler' = [handler EXCEPT ![t] = "events"] /\ UNCHANGED <<answer, told>>
      BY <1>10, <2>3 DEF GetForEvents
    <3> USE DEF ApiInv
    <3>2. pc[t] = "idle" /\ answer[t].code = 0 /\ answer[t].events = <<>> /\ outcome[t] = "none"
      BY <2>1 DEF AnswersOnce, TxInv
    <3>3. UNCHANGED <<row, pc, req, outcome>>
      BY <2>1 DEF txVars
    <3>4. \A u \in Tx \ {t} : handler'[u] = handler[u] /\ since'[u] = since[u]
      BY <2>1, <3>1 DEF ApiTypes
    <3>5. ApiTypes' /\ AnswersOnce'
      BY <2>1, <3>1, <3>2, <3>3, <3>4 DEF ApiTypes, AnswersOnce
    <3>6. ToldIsExplained'
      BY <3>1, <3>3 DEF ToldIsExplained
    <3>7. AbsentBeforeTold' /\ AnswersAgree'
      BY <3>1, <3>2, <3>3, <3>4 DEF AbsentBeforeTold, AnswersAgree
    <3>8. HistoryExplainsAnswers'
      <4> SUFFICES ASSUME NEW u \in Tx, answer[u].events # <<>>, NEW s \in since'[u]
                   PROVE  \E i \in 1..Len(answer[u].events) : answer[u].events[i].to = s
        BY <3>1 DEF HistoryExplainsAnswers
      <4> QED BY <3>2, <3>4 DEF HistoryExplainsAnswers
    <3> QED BY <3>5, <3>6, <3>7, <3>8
  <2> QED BY <2>2, <2>3
<1>11. ASSUME NEW t \in Tx, GetEvents(t)
       PROVE  ApiInv'
  BY <1>11, RespondStep DEF GetEvents, NotesTold
<1>12. CASE SendRequest \/ AllAnswered \/ UNCHANGED allVars
  <2>1. UNCHANGED <<row, pc, req, outcome, handler, answer, told, since>>
    BY <1>12 DEF SendRequest, AllAnswered, allVars, txVars
  <2> QED BY <2>1 DEF ApiInv, ApiTypes, AnswersOnce, ToldIsExplained, AbsentBeforeTold,
        AnswersAgree, HistoryExplainsAnswers
<1> QED BY <1>1, <1>2, <1>3, <1>4, <1>5, <1>6, <1>8, <1>9, <1>10, <1>11, <1>12 DEF NextApi

\* The invariant of every behaviour of the API.
LEMMA ApiInvAlways == ApiSpec => [](TxInv /\ TxFacts /\ CreatesOnce /\ ApiInv)
<1>1. InitApi => ApiInv
  BY DEF InitApi, Init, ApiInv, ApiTypes, AnswersOnce, ToldIsExplained, AbsentBeforeTold,
    AnswersAgree, HistoryExplainsAnswers, Answer, ErrorAnswer, NoAnswer
<1>2. TxInv /\ TxFacts /\ ApiInv /\ [NextApi]_allVars => ApiInv'
  BY ApiInvStep
<1> QED BY <1>1, <1>2, ApiRunsTransactions, TxFactsAlways, PTL DEF ApiSpec

\* An operation is created once and for all, however many requests run beside:
\* one create is answered 201, and once a status was told, no later request
\* creates the operation or finds it missing.
THEOREM CreatedOnceForAllAlways == ApiSpec => []CreatedOnceForAll
<1>1. CreatesOnce /\ ApiInv => CreatedOnceForAll
  BY DEF CreatesOnce, ApiInv, AnswersAgree, AbsentBeforeTold, CreatedOnceForAll
<1> QED BY <1>1, ApiInvAlways, PTL

\* A history never lags behind a status that any client was told before.
THEOREM HistoryExplainsAnswersAlways == ApiSpec => []HistoryExplainsAnswers
<1>1. ApiInv => HistoryExplainsAnswers
  BY DEF ApiInv
<1> QED BY <1>1, ApiInvAlways, PTL

-----------------------------------------------------------------------------
(* Powers of ten *)

\* A set of numbers that is not empty has a least one.
LEMMA LeastNumber ==
  ASSUME NEW T \in SUBSET Nat, T # {}
  PROVE  \E x \in T : \A y \in T : ~ (y < x)
<1> DEFINE R == OpToRel(<, Nat)
<1>1. IsWellFoundedOn(R, Nat)
  BY NatLessThanWellFounded
<1>2. \A x, y \in Nat : y < x => <<y, x>> \in R
  BY DEF OpToRel
<1> HIDE DEF R
<1>3. PICK x \in T : \A y \in T : ~ (<<y, x>> \in R)
  BY <1>1, WFMin
<1> QED BY <1>2, <1>3

\* Induction: a set that has 0, and n + 1 with n, has every natural number.
LEMMA SetInduction ==
  ASSUME NEW S \in SUBSET Nat, 0 \in S, \A n \in S : n + 1 \in S
  PROVE  S = Nat
<1> SUFFICES ASSUME Nat \ S # {} PROVE FALSE
  OBVIOUS
<1>1. PICK x \in Nat \ S : \A y \in Nat \ S : ~ (y < x)
  BY LeastNumber
<1>2. x # 0 /\ x - 1 \in Nat /\ x - 1 < x
  OBVIOUS
<1>3. x - 1 \in S
  BY <1>1, <1>2
<1> QED BY <1>3

\* The first n + 1 powers of ten.
Powers(g, n) ==
  /\ g \in [0..n -> Nat]
  /\ g[0] = 1
  /\ \A i \in 1..n : g[i] = 10 * g[i - 1]

\* They are the same however many of them are taken.
LEMMA PowersAgree ==
  ASSUME NEW n \in Nat, NEW m \in Nat, NEW g, NEW h, Powers(g, n), Powers(h, m)
  PROVE  \A i \in Nat : i <= n /\ i <= m => g[i] = h[i]
<1> DEFINE S == {i \in Nat : i <= n /\ i <= m => g[i] = h[i]}
<1>1. 0 \in S
  BY DEF Powers
<1>2. ASSUME NEW i \in S PROVE i + 1 \in S
  <2> SUFFICES ASSUME i + 1 <= n, i + 1 <= m PROVE g[i + 1] = h[i + 1]
    OBVIOUS
  <2>1. i + 1 \in 1..n /\ i + 1 \in 1..m /\ (i + 1) - 1 = i
    OBVIOUS
  <2> QED BY <1>2, <2>1 DEF Powers
<1>3. S = Nat
  <2> HIDE DEF S
  <2> QED BY <1>1, <1>2, SetInduction DEF S
<1> QED BY <1>3

\* There are as many as one likes.
LEMMA PowersExist == \A n \in Nat : \E g : Powers(g, n)
<1> DEFINE S == {n \in Nat : \E g : Powers(g, n)}
<1>1. 0 \in S
  <2>1. Powers([i \in 0..0 |-> 1], 0)
    BY DEF Powers
  <2> QED BY <2>1
<1>2. ASSUME NEW n \in S PROVE n + 1 \in S
  <2>1. PICK g : Powers(g, n)
    OBVIOUS
  <2> DEFINE h == [i \in 0..(n + 1) |-> IF i <= n THEN g[i] ELSE 10 * g[n]]
  <2>2. h \in [0..(n + 1) -> Nat] /\ h[0] = 1
    BY <2>1 DEF Powers
  <2>3. ASSUME NEW i \in 1..(n + 1) PROVE h[i] = 10 * h[i - 1]
    <3>1. i - 1 \in 0..n /\ h[i - 1] = g[i - 1]
      OBVIOUS
    <3>2. CASE i <= n
      BY <2>1, <3>1, <3>2 DEF Powers
    <3>3. CASE i = n + 1
      BY <3>1, <3>3
    <3> QED BY <3>2, <3>3
  <2> HIDE DEF h
  <2>4. Powers(h, n + 1)
    BY <2>2, <2>3 DEF Powers
  <2> QED BY <2>4
<1>3. S = Nat
  <2> HIDE DEF S
  <2> QED BY <1>1, <1>2, SetInduction DEF S
<1> QED BY <1>3

\* TenTo is defined, and unfolds one factor at a time.
LEMMA TenToUnfolds ==
  /\ TenTo \in [Nat -> Nat]
  /\ TenTo[0] = 1
  /\ \A n \in Nat : TenTo[n + 1] = 10 * TenTo[n]
<1> DEFINE G(n) == CHOOSE g : Powers(g, n)
           F == [n \in Nat |-> G(n)[n]]
<1>1. ASSUME NEW n \in Nat PROVE Powers(G(n), n)
  BY PowersExist
<1> HIDE DEF G
<1>2. F[0] = 1
  BY <1>1 DEF Powers
<1>3. ASSUME NEW n \in Nat PROVE F[n + 1] = 10 * F[n]
  <2>1. G(n + 1)[n] = G(n)[n]
    BY <1>1, PowersAgree
  <2>2. G(n + 1)[n + 1] = 10 * G(n + 1)[n]
    BY <1>1, n + 1 \in 1..(n + 1) DEF Powers
  <2> QED BY <2>1, <2>2
<1>4. F = [n \in Nat |-> IF n = 0 THEN 1 ELSE 10 * F[n - 1]]
  <2> HIDE DEF F
  <2>1. ASSUME NEW n \in Nat \ {0} PROVE F[n] = 10 * F[n - 1]
    <3>1. n - 1 \in Nat /\ (n - 1) + 1 = n
      OBVIOUS
    <3> QED BY <1>3, <3>1
  <2>2. F = [n \in Nat |-> F[n]]
    BY DEF F
  <2>3. \A n \in Nat : F[n] = IF n = 0 THEN 1 ELSE 10 * F[n - 1]
    BY <1>2, <2>1
  <2> QED BY <2>2, <2>3
<1>5. TenTo = [n \in Nat |-> IF n = 0 THEN 1 ELSE 10 * TenTo[n - 1]]
  <2> HIDE DEF F
  <2> QED BY <1>4 DEF TenTo
<1> DEFINE Unfolded(n) == IF n = 0 THEN 1 ELSE 10 * TenTo[n - 1]
<1>6. TenTo = [n \in Nat |-> Unfolded(n)]
  BY <1>5
<1>7. TenTo[0] = 1 /\ \A n \in Nat : TenTo[n + 1] = 10 * TenTo[n]
  <2>1. \A n \in Nat : TenTo[n] = Unfolded(n)
    <3> HIDE DEF Unfolded
    <3> QED BY <1>6
  <2>2. ASSUME NEW n \in Nat PROVE n + 1 \in Nat /\ n + 1 # 0 /\ (n + 1) - 1 = n
    OBVIOUS
  <2> QED BY <2>1, <2>2
<1>8. TenTo \in [Nat -> Nat]
  <2> DEFINE S == {n \in Nat : TenTo[n] \in Nat}
  <2>1. 0 \in S /\ \A n \in S : n + 1 \in S
    BY <1>7
  <2>2. S = Nat
    <3> HIDE DEF S
    <3> QED BY <2>1, SetInduction DEF S
  <2> QED BY <1>6, <2>2
<1> QED BY <1>7, <1>8

-----------------------------------------------------------------------------
(* The amount *)

\* Two more places shift the point by a hundred, which the column can hold.
LEMMA TenToPlusTwo ==
  /\ TenTo[1] = 10 /\ TenTo[2] = 100
  /\ \A n \in Nat : TenTo[n] \in Nat /\ TenTo[n + 2] = 100 * TenTo[n]
<1>1. ASSUME NEW n \in Nat
      PROVE  TenTo[n] \in Nat /\ TenTo[n + 2] = 100 * TenTo[n]
  <2>1. TenTo[n + 1] = 10 * TenTo[n] /\ TenTo[n] \in Nat
    BY TenToUnfolds
  <2>2. TenTo[(n + 1) + 1] = 10 * TenTo[n + 1] /\ (n + 1) + 1 = n + 2
    BY n + 1 \in Nat, TenToUnfolds
  <2> QED BY <2>1, <2>2
<1>2. TenTo[0 + 1] = 10 * TenTo[0] /\ TenTo[0 + 2] = 100 * TenTo[0] /\ TenTo[0] = 1
  BY <1>1, TenToUnfolds
<1> QED BY <1>1, <1>2

\* The column holds an amount that was let in exactly, and what is formatted
\* from it says the same amount again.
LEMMA HundredthsAreExact ==
  ASSUME NEW d \in Decimal, ValidAmount(d)
  PROVE  /\ Hundredths(d) \in Nat
         /\ SameAmount(Hundredths(d), d)
         /\ LET b == BodyAmount(Hundredths(d)) IN 100 * b[1] + b[2] = Hundredths(d)
<1> DEFINE c == d.coefficient
           e == d.exponent
           h == Hundredths(d)
<1>1. c \in Nat /\ e \in Int /\ e >= -2
  <2>1. c \in Coefficients /\ e \in -MaxScale..MaxExponent
    BY DEF Decimal
  <2>2. c > 0 /\ e >= -2
    BY DEF ValidAmount
  <2> HIDE DEF c, e
  <2> QED BY <2>1, <2>2, CoefficientsAssumption, ExponentsAssumption
<1>2. h = c * TenTo[e + 2]
  BY <1>1 DEF Hundredths
<1>3. TenTo[e + 2] \in Nat
  BY <1>1, TenToPlusTwo
<1>4. h \in Nat
  <2> HIDE DEF c, e, h
  <2> QED BY <1>1, <1>2, <1>3
<1>5. SameAmount(h, d)
  <2>1. CASE e >= 0
    <3>1. TenTo[e + 2] = 100 * TenTo[e] /\ TenTo[e] \in Nat
      BY <1>1, <2>1, TenToPlusTwo
    <3>2. h = 100 * c * TenTo[e]
      <4> HIDE DEF c, e, h
      <4> QED BY <1>1, <1>2, <3>1
    <3> QED BY <1>1, <2>1, <3>2 DEF SameAmount
  <2>2. CASE e = -1
    <3>1. h * TenTo[-e] = 100 * c
      <4> HIDE DEF c, e, h
      <4>1. h = c * 10 /\ TenTo[-e] = 10
        BY <1>1, <1>2, <2>2, TenToPlusTwo
      <4> QED BY <1>1, <4>1
    <3> QED BY <2>2, <3>1 DEF SameAmount
  <2>3. CASE e = -2
    <3>1. h * TenTo[-e] = 100 * c
      <4> HIDE DEF c, e, h
      <4>1. h = c /\ TenTo[-e] = 100
        BY <1>1, <1>2, <2>3, TenToUnfolds, TenToPlusTwo
      <4> QED BY <1>1, <4>1
    <3> QED BY <2>3, <3>1 DEF SameAmount
  <2> QED BY <1>1, <2>1, <2>2, <2>3
<1>6. LET b == BodyAmount(h) IN 100 * b[1] + b[2] = h
  <2> HIDE DEF c, e, h
  <2> QED BY <1>4 DEF BodyAmount
<1> QED BY <1>4, <1>5, <1>6

\* The transaction of a request that asks for the operation to be created.
IsCreate(t) == req[t].kind = "create" /\ pc[t] # "idle"

\* A create that runs was let in by the validation.
AskedIsValid ==
  /\ asked = [t \in Tx |-> asked[t]]
  /\ \A t \in Tx : IsCreate(t) => asked[t] \in Decimal /\ ValidAmount(asked[t])

\* The row holds what the create that made it asked for.
RowHoldsAsked ==
  \A t \in Tx : req[t].kind = "create" /\ outcome[t] = "committed" =>
    amount = Hundredths(asked[t])

\* Answers and bodies say what the row holds.
AnswersTellAmount ==
  \A t \in Tx : /\ answer[t].amount \in {None, amount}
                /\ answer[t].code = 201 => answer[t].amount = amount

BodiesTellAmount == \A b \in bodies : b = BodyAmount(amount)

\* Nobody was told an amount before there is a row.
NoAmountYet == row.status = "ABSENT" => amount = None /\ bodies = {}

AmountInv ==
  AskedIsValid /\ RowHoldsAsked /\ AnswersTellAmount /\ BodiesTellAmount /\ NoAmountYet

\* A step that only answers from the row, or sends its amount.
LEMMA AnswerTellsAmount ==
  ASSUME ApiInv, AmountInv, NEW t \in Tx, NEW a, Respond(t, a),
         a.amount \in {None, amount},
         a.code = 201 => a.amount = amount,
         UNCHANGED <<txVars, asked, amount, bodies>>
  PROVE  AmountInv'
<1>1. answer' = [answer EXCEPT ![t] = a] /\ UNCHANGED <<row, pc, req, outcome>>
  BY DEF Respond, txVars
<1>2. answer'[t] = a /\ \A u \in Tx : u # t => answer'[u] = answer[u]
  BY <1>1 DEF ApiInv, ApiTypes
<1>3. AnswersTellAmount'
  BY <1>2 DEF AmountInv, AnswersTellAmount
<1>4. AskedIsValid' /\ RowHoldsAsked' /\ BodiesTellAmount' /\ NoAmountYet'
  BY <1>1 DEF AmountInv, AskedIsValid, IsCreate, RowHoldsAsked, BodiesTellAmount, NoAmountYet
<1> QED BY <1>3, <1>4 DEF AmountInv

\* A request that begins changes no amount, and a create is valid.
LEMMA BeginKeepsAmount ==
  ASSUME TxInv, ApiInv, AmountInv, NEW t \in Tx, NEW r \in AllRequests,
         handler[t] = "new", Begin(t, r),
         \/ asked' = asked /\ r.kind # "create"
         \/ \E d \in Decimal : ValidAmount(d) /\ asked' = [asked EXCEPT ![t] = d],
         UNCHANGED <<answer, amount, bodies>>
  PROVE  AmountInv'
<1>1. /\ row' = row /\ outcome' = outcome /\ outcome[t] = "none"
      /\ req'[t] = r /\ \A u \in Tx : u # t => pc'[u] = pc[u] /\ req'[u] = req[u]
  BY DEF Begin, TxInv, TypeOK
<1>2. AskedIsValid'
  BY <1>1 DEF AmountInv, AskedIsValid, IsCreate
<1>3. RowHoldsAsked'
  BY <1>1 DEF AmountInv, AskedIsValid, RowHoldsAsked
<1>4. AnswersTellAmount' /\ BodiesTellAmount' /\ NoAmountYet'
  BY <1>1 DEF AmountInv, AnswersTellAmount, BodiesTellAmount, NoAmountYet
<1> QED BY <1>2, <1>3, <1>4 DEF AmountInv

\* A statement changes the amount only when it commits the create, and that
\* finds no row.
LEMMA StatementKeepsAmount ==
  ASSUME TxInv, TxFacts, ApiInv, AmountInv, NEW t \in Tx,
         Insert(t) \/ RunStatement(t) \/ CommitRow(t)
  PROVE  AmountInv'
<1>1. UNCHANGED <<req, asked, answer, bodies>>
  BY DEF Insert, RunStatement, CommitRow, apiVars, GetOperation, InsertOperation,
    SelectForUpdate, ReadSequence, Commit, Abort, End
<1>2. \A u \in Tx : pc[u] = "idle" => pc'[u] = "idle"
  BY DEF TxInv, TypeOK, Insert, RunStatement, CommitRow, GetOperation, InsertOperation,
    SelectForUpdate, ReadSequence, Commit, Abort, End
<1>3. [Next]_txVars
  BY ApiStepIsTxStep DEF NextApi
<1>4. row.status # "ABSENT" => row'.status # "ABSENT"
  BY <1>3, RowStep
<1>5. AskedIsValid'
  BY <1>1, <1>2 DEF AmountInv, AskedIsValid, IsCreate
<1>6. \A u \in Tx : outcome[u] = "committed" => row.status # "ABSENT"
  BY DEF TxFacts
<1>7. \A u \in Tx : req[u].kind = "create" => req[u] = CreateRequest
  BY DEF TxInv, TypeOK, LockingRequests, CreateRequest, Plain
<1>8. CASE amount' = amount /\ \A u \in Tx : outcome'[u] = "committed" =>
             outcome[u] = "committed" \/ req[u].kind # "create"
  BY <1>1, <1>4, <1>5, <1>8
  DEF AmountInv, RowHoldsAsked, AnswersTellAmount, BodiesTellAmount, NoAmountYet
<1>9. CASE Insert(t) \/ RunStatement(t)
  <2>1. amount' = amount /\ row' = row
    BY <1>9 DEF Insert, RunStatement, apiVars, GetOperation, InsertOperation,
      SelectForUpdate, ReadSequence, Abort, End
  <2>2. ASSUME NEW u \in Tx, outcome'[u] = "committed"
        PROVE  outcome[u] = "committed"
    BY <1>3, <2>1, <2>2, TransactionStep
  <2> QED BY <1>8, <2>1, <2>2
<1>10. CASE CommitRow(t)
  <2>1. /\ Commit(t)
        /\ amount' = IF req[t] = CreateRequest /\ outcome'[t] = "committed"
                     THEN Hundredths(asked[t]) ELSE amount
    BY <1>10 DEF CommitRow
  <2>2. \A u \in Tx : u # t => outcome'[u] = outcome[u]
    BY <2>1, CommitWritesBody DEF TxInv, TypeOK
  <2>3. outcome'[t] = "committed" => row' # row
    BY <2>1, CommitWritesBody DEF TxInv, TypeOK
  <2>4. CASE ~ (req[t] = CreateRequest /\ outcome'[t] = "committed")
    BY <1>7, <1>8, <2>1, <2>2, <2>4
  <2>5. CASE req[t] = CreateRequest /\ outcome'[t] = "committed"
    <3>1. row.status = "ABSENT" /\ row'.status # "ABSENT"
      BY <2>1, <2>3, <2>5, CommittedCreate DEF CreateRequest, Plain
    <3>2. amount' = Hundredths(asked[t])
      BY <2>1, <2>5
    <3>3. bodies' = {} /\ \A u \in Tx : answer'[u].amount = None
      BY <1>1, <3>1 DEF AmountInv, NoAmountYet, AnswersTellAmount
    <3>4. \A u \in Tx : answer'[u].code # 201
      BY <1>1, <1>6, <3>1 DEF ApiInv, AnswersAgree
    <3>5. \A u \in Tx : outcome'[u] = "committed" => u = t
      BY <1>6, <2>2, <3>1
    <3>6. RowHoldsAsked'
      BY <1>1, <3>2, <3>5 DEF RowHoldsAsked
    <3>7. AnswersTellAmount' /\ BodiesTellAmount' /\ NoAmountYet'
      BY <3>1, <3>3, <3>4 DEF AnswersTellAmount, BodiesTellAmount, NoAmountYet
    <3> QED BY <1>5, <3>6, <3>7 DEF AmountInv
  <2> QED BY <2>4, <2>5
<1> QED BY <1>9, <1>10

\* Every step keeps AmountInv.
LEMMA AmountInvStep ==
  ASSUME TxInv, TxFacts, ApiInv, AmountInv, [NextApi]_allVars
  PROVE  AmountInv'
<1> USE DEF Answer, ErrorAnswer
<1>1. ASSUME NEW t \in Tx, NEW d \in Decimal, RefuseRequest(t, d)
      PROVE  AmountInv'
  BY <1>1, AnswerTellsAmount DEF RefuseRequest
<1>2. ASSUME NEW t \in Tx, NEW d \in Decimal, BeginCreate(t, d)
      PROVE  AmountInv'
  BY <1>2, BeginKeepsAmount DEF BeginCreate, AllRequests
<1>3. ASSUME NEW t \in Tx, NEW r \in LockingRequests, BeginOther(t, r)
      PROVE  AmountInv'
  <2>1. r.kind # "create" /\ r \in AllRequests
    BY DEF LockingRequests, Plain, AllRequests
  <2> QED BY <1>3, <2>1, BeginKeepsAmount DEF BeginOther
<1>4. ASSUME NEW t \in Tx, Insert(t) \/ RunStatement(t) \/ CommitRow(t)
      PROVE  AmountInv'
  BY <1>4, StatementKeepsAmount
<1>5. ASSUME NEW t \in Tx, AnswerError(t)
      PROVE  AmountInv'
  <2> DEFINE code == CASE outcome[t] = "conflict" -> 409
                       [] outcome[t] = "not_found" -> 404
                       [] OTHER -> 500
  <2>1. code # 201 /\ Respond(t, ErrorAnswer(code)) /\ UNCHANGED <<txVars, asked, amount, bodies>>
    BY <1>5 DEF AnswerError
  <2> HIDE DEF code
  <2> QED BY <2>1, AnswerTellsAmount
<1>6. ASSUME NEW t \in Tx, AnswerExisting(t)
      PROVE  AmountInv'
  BY <1>6, AnswerTellsAmount DEF AnswerExisting
<1>7. ASSUME NEW t \in Tx, RefreshAndAnswer(t)
      PROVE  AmountInv'
  BY <1>7, AnswerTellsAmount DEF RefreshAndAnswer
<1>8. ASSUME NEW t \in Tx, GetById(t)
      PROVE  AmountInv'
  <2>1. CASE Respond(t, ErrorAnswer(404))
    BY <1>8, <2>1, AnswerTellsAmount DEF GetById
  <2>2. CASE Respond(t, Answer(200, row.status, amount, <<>>))
    BY <1>8, <2>2, AnswerTellsAmount DEF GetById
  <2> QED BY <1>8, <2>1, <2>2 DEF GetById
<1>9. ASSUME NEW t \in Tx, GetEvents(t)
      PROVE  AmountInv'
  BY <1>9, AnswerTellsAmount DEF GetEvents
<1>10. ASSUME UNCHANGED <<row, pc, req, outcome, asked, answer, amount>>,
              bodies' = bodies \/ (row.status # "ABSENT" /\ bodies' = bodies \cup {BodyAmount(amount)})
       PROVE  AmountInv'
  BY <1>10 DEF AmountInv, AskedIsValid, IsCreate, RowHoldsAsked, AnswersTellAmount,
    BodiesTellAmount, NoAmountYet
<1>11. ASSUME NEW t \in Tx, GetForEvents(t)
       PROVE  AmountInv'
  <2>1. CASE Respond(t, ErrorAnswer(404))
    BY <1>11, <2>1, AnswerTellsAmount DEF GetForEvents
  <2>2. CASE UNCHANGED <<answer, told>>
    BY <1>10, <1>11, <2>2 DEF GetForEvents, txVars
  <2> QED BY <1>11, <2>1, <2>2 DEF GetForEvents
<1>12. CASE SendRequest
  <2>1. row.status # "ABSENT"
    BY <1>12 DEF SendRequest, TxInv, RowOK, JobAgreesWithStatus
  <2> QED BY <1>10, <1>12, <2>1 DEF SendRequest, txVars
<1>13. CASE AllAnswered \/ UNCHANGED allVars
  BY <1>10, <1>13 DEF AllAnswered, allVars, txVars
<1> QED BY <1>1, <1>2, <1>3, <1>4, <1>5, <1>6, <1>7, <1>8, <1>9, <1>11, <1>12, <1>13
    DEF NextApi

\* What was promised with a 201 is, to the last digit, the amount that was asked
\* for, and every other answer and every request to the provider says the same:
\* for any amounts, scales and precision of the column.
THEOREM AmountIsKeptAlways == ApiSpec => []AmountIsKept
<1>1. InitApi => AmountInv
  BY DEF InitApi, Init, AmountInv, AskedIsValid, IsCreate, RowHoldsAsked, AnswersTellAmount,
    BodiesTellAmount, NoAmountYet, NoAnswer, ErrorAnswer, Answer
<1>2. TxInv /\ TxFacts /\ ApiInv /\ AmountInv /\ [NextApi]_allVars => AmountInv'
  BY AmountInvStep
<1>3. ASSUME TxInv, ApiInv, AmountInv
      PROVE  AmountIsKept
  <2> SUFFICES ASSUME NEW t \in Tx, answer[t].code = 201
               PROVE  /\ SameAmount(answer[t].amount, asked[t])
                      /\ \A u \in Tx : answer[u].amount \in {None, answer[t].amount}
                      /\ \A b \in bodies : SameAmount(100 * b[1] + b[2], asked[t])
    BY DEF AmountIsKept
  <2>1. req[t].kind = "create" /\ outcome[t] = "committed" /\ answer[t].amount = amount
    BY <1>3 DEF ApiInv, AnswersAgree, AmountInv, AnswersTellAmount
  <2>2. amount = Hundredths(asked[t])
    BY <1>3, <2>1 DEF AmountInv, RowHoldsAsked
  <2>3. asked[t] \in Decimal /\ ValidAmount(asked[t])
    BY <1>3, <2>1 DEF TxInv, AmountInv, AskedIsValid, IsCreate
  <2>4. \A u \in Tx : answer[u].amount \in {None, amount}
    BY <1>3 DEF AmountInv, AnswersTellAmount
  <2>5. \A b \in bodies : b = BodyAmount(Hundredths(asked[t]))
    BY <1>3, <2>2 DEF AmountInv, BodiesTellAmount
  <2> QED BY <2>1, <2>2, <2>3, <2>4, <2>5, HundredthsAreExact
<1> QED BY <1>1, <1>2, <1>3, ApiInvAlways, PTL DEF ApiSpec
=============================================================================
