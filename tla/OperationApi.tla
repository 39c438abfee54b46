---------------------------- MODULE OperationApi ----------------------------
(***************************************************************************)
(* What the clients of /operations ask and are answered, around the        *)
(* transactions of OperationTransactions: the validation of a request      *)
(* (app/schemas), the handlers (app/api), the reads that follow a commit   *)
(* or need no transaction, and the way of an amount from the JSON of       *)
(* POST /operations through NUMERIC(12, 2) into the body of every request  *)
(* to the provider.                                                        *)
(*                                                                         *)
(* A decimal is a coefficient and an exponent, as Decimal.as_tuple() has   *)
(* them; the column holds hundredths.  Currency, description and ids have  *)
(* one legal form each and are left out.                                   *)
(***************************************************************************)
EXTENDS OperationTransactions, Integers

CONSTANTS
  Coefficients,            \* of the amounts that clients send
  MaxScale, MaxExponent,   \* their exponents are in -MaxScale..MaxExponent
  Precision                \* digits the amount column holds, 12 in the code

ASSUME CoefficientsAssumption == Coefficients \subseteq Int
ASSUME ExponentsAssumption == MaxScale \in Nat /\ MaxExponent \in Nat
ASSUME PrecisionAssumption == Precision \in Nat

VARIABLES
  handler,  \* what the handler that runs in a transaction does next
  asked,    \* the amount a create asks for
  answer,   \* what the client was answered
  amount,   \* hundredths in the committed row, or None
  told,     \* the statuses clients have been told
  since,    \* those they had been told when a request began
  bodies    \* amounts in the bodies of the requests to the provider

apiVars == <<handler, asked, answer, amount, told, since, bodies>>
allVars == <<row, lock, pc, req, seen, seq, outcome,
             handler, asked, answer, amount, told, since, bodies>>

Decimal == [coefficient : Coefficients, exponent : -MaxScale..MaxExponent]

\* Mutant of ValidAmount: the column rounds what has more decimal places.
ValidAmountPositive(d) == d.coefficient > 0

\* CreateOperationRequest.validate_amount
ValidAmount(d) == d.coefficient > 0 /\ d.exponent >= -2

\* Powers of ten, as a function that proofs can unfold
TenTo[n \in Nat] == IF n = 0 THEN 1 ELSE 10 * TenTo[n - 1]

\* What NUMERIC(12, 2) makes of a decimal, in hundredths: exact up to two
\* places, rounded beyond
Hundredths(d) ==
  IF d.exponent >= -2 THEN d.coefficient * TenTo[d.exponent + 2]
  ELSE LET unit == TenTo[-2 - d.exponent] IN (2 * d.coefficient + unit) \div (2 * unit)

FitsColumn(d) == Hundredths(d) < TenTo[Precision]

\* f"{amount:.2f}", as its two groups of digits
BodyAmount(hundredths) == <<hundredths \div 100, hundredths % 100>>

Answer(code, status, hundredths, events) ==
  [code |-> code, status |-> status, amount |-> hundredths, events |-> events]
ErrorAnswer(code) == Answer(code, "none", None, <<>>)
NoAnswer == ErrorAnswer(0)

-----------------------------------------------------------------------------
InitApi ==
  /\ Init
  /\ handler = [t \in Tx |-> "new"]
  /\ asked = [t \in Tx |-> None]
  /\ answer = [t \in Tx |-> NoAnswer]
  /\ amount \in IF row.status = "ABSENT" THEN {None}
                ELSE {Hundredths(d) : d \in {x \in Decimal : ValidAmount(x) /\ FitsColumn(x)}}
  /\ told = {}
  /\ since = [t \in Tx |-> {}]
  /\ bodies = {}

Respond(t, a) ==
  /\ handler' = [handler EXCEPT ![t] = "answered"]
  /\ answer' = [answer EXCEPT ![t] = a]
  /\ told' = told \cup ({a.status} \ {"none"})

\* FastAPI validates the body before the handler runs
RefuseRequest(t, d) ==
  /\ handler[t] = "new"
  /\ ~ ValidAmount(d)
  /\ Respond(t, ErrorAnswer(422))
  /\ UNCHANGED <<txVars, asked, amount, since, bodies>>

BeginCreate(t, d) ==
  /\ handler[t] = "new"
  /\ ValidAmount(d)
  /\ Begin(t, CreateRequest)
  /\ handler' = [handler EXCEPT ![t] = "transaction"]
  /\ asked' = [asked EXCEPT ![t] = d]
  /\ since' = [since EXCEPT ![t] = told]
  /\ UNCHANGED <<answer, amount, told, bodies>>

\* A submit, a receipt, or the transaction of a worker
BeginOther(t, r) ==
  /\ handler[t] = "new"
  /\ Begin(t, r)
  /\ handler' = [handler EXCEPT ![t] = "transaction"]
  /\ since' = [since EXCEPT ![t] = told]
  /\ UNCHANGED <<asked, answer, amount, told, bodies>>

\* Mutant of Insert: an upsert.
InsertOrUpdate(t) ==
  /\ pc[t] = "insert"
  /\ lock = None
  /\ lock' = t
  /\ seen' = [seen EXCEPT ![t] = NoRow]
  /\ seq' = [seq EXCEPT ![t] = Len(row.events) + 1]
  /\ pc' = [pc EXCEPT ![t] = "commit"]
  /\ UNCHANGED <<row, req, outcome, apiVars>>

\* An amount the column cannot hold fails the INSERT whatever rows there are
Insert(t) ==
  /\ pc[t] = "insert"
  /\ IF FitsColumn(asked[t]) THEN InsertOperation(t) ELSE Abort(t)
  /\ UNCHANGED apiVars

RunStatement(t) ==
  /\ GetOperation(t) \/ SelectForUpdate(t) \/ ReadSequence(t) \/ Abort(t)
  /\ UNCHANGED apiVars

CommitRow(t) ==
  /\ Commit(t)
  /\ amount' = IF req[t] = CreateRequest /\ outcome'[t] = "committed"
               THEN Hundredths(asked[t]) ELSE amount
  /\ UNCHANGED <<handler, asked, answer, told, since, bodies>>

\* The exceptions of create and submit; those nobody maps end in a 500
AnswerError(t) ==
  /\ handler[t] = "transaction"
  /\ pc[t] = "done"
  /\ req[t].kind \in {"create", "submit"}
  /\ outcome[t] \in {"conflict", "not_found", "error", "aborted"}
  /\ Respond(t, ErrorAnswer(CASE outcome[t] = "conflict" -> 409
                              [] outcome[t] = "not_found" -> 404
                              [] OTHER -> 500))
  /\ UNCHANGED <<txVars, asked, amount, since, bodies>>

\* SubmitOutcome.EXISTING: the row that was read under the lock
AnswerExisting(t) ==
  /\ handler[t] = "transaction"
  /\ req[t].kind = "submit"
  /\ outcome[t] = "unchanged"
  /\ Respond(t, Answer(200, seen[t].status, amount, <<>>))
  /\ UNCHANGED <<txVars, asked, amount, since, bodies>>

\* session.refresh after the commit, which has let the lock go: the row may be
\* further than this request has brought it
RefreshAndAnswer(t) ==
  /\ handler[t] = "transaction"
  /\ req[t].kind \in {"create", "submit"}
  /\ outcome[t] = "committed"
  /\ \/ Respond(t, Answer(IF req[t].kind = "create" THEN 201 ELSE 202,
                          row.status, amount, <<>>))
     \/ Respond(t, ErrorAnswer(500))   \* the refresh fails
  /\ UNCHANGED <<txVars, asked, amount, since, bodies>>

\* GET /operations/{id}
GetById(t) ==
  /\ handler[t] = "new"
  /\ Respond(t, IF row.status = "ABSENT" THEN ErrorAnswer(404)
                ELSE Answer(200, row.status, amount, <<>>))
  /\ since' = [since EXCEPT ![t] = told]
  /\ UNCHANGED <<txVars, asked, amount, bodies>>

\* GET /operations/{id}/events: the operation first, then its events
GetForEvents(t) ==
  /\ handler[t] = "new"
  /\ IF row.status = "ABSENT" THEN Respond(t, ErrorAnswer(404))
     ELSE /\ handler' = [handler EXCEPT ![t] = "events"]
          /\ UNCHANGED <<answer, told>>
  /\ since' = [since EXCEPT ![t] = told]
  /\ UNCHANGED <<txVars, asked, amount, bodies>>

GetEvents(t) ==
  /\ handler[t] = "events"
  /\ Respond(t, Answer(200, "none", None, row.events))
  /\ UNCHANGED <<txVars, asked, amount, since, bodies>>

\* A worker reads the row and sends its amount
SendRequest ==
  /\ row.sendJob.state \in {"RUNNING", "WAITING_RETRY"}
  /\ bodies' = bodies \cup {BodyAmount(amount)}
  /\ UNCHANGED <<txVars, handler, asked, answer, amount, told, since>>

\* Nobody asks for more; without this step a transaction that waits for ever
\* would not show as a deadlock.
AllAnswered ==
  /\ \A t \in Tx : handler[t] = "answered" \/ pc[t] = "done"
  /\ UNCHANGED allVars

NextApi ==
  \/ \E t \in Tx, d \in Decimal : RefuseRequest(t, d) \/ BeginCreate(t, d)
  \/ \E t \in Tx, r \in LockingRequests : BeginOther(t, r)
  \/ \E t \in Tx : \/ Insert(t) \/ RunStatement(t) \/ CommitRow(t)
                   \/ AnswerError(t) \/ AnswerExisting(t) \/ RefreshAndAnswer(t)
                   \/ GetById(t) \/ GetForEvents(t) \/ GetEvents(t)
  \/ SendRequest
  \/ AllAnswered

ApiSpec == InitApi /\ [][NextApi]_allVars

-----------------------------------------------------------------------------
(* Properties *)

\* That so many hundredths are the decimal a client wrote
SameAmount(hundredths, d) ==
  IF d.exponent < 0 THEN hundredths * TenTo[-d.exponent] = 100 * d.coefficient
                    ELSE hundredths = 100 * d.coefficient * TenTo[d.exponent]

\* README.md, "the request body does not change": what a client was promised
\* with a 201 is what every other answer says and what every request to the
\* provider asks for, although the amount is read, written and formatted anew
\* each time; an amount the column cannot hold is never promised.
AmountIsKept ==
  \A t \in Tx : answer[t].code = 201 =>
    /\ SameAmount(answer[t].amount, asked[t])
    /\ \A u \in Tx : answer[u].amount \in {None, answer[t].amount}
    /\ \A b \in bodies : SameAmount(100 * b[1] + b[2], asked[t])

\* An operation is created once and for all: at most one create is answered 201,
\* whatever runs beside it, and once any client was told a status, no later
\* request creates the operation or finds it missing.
CreatedOnceForAll ==
  /\ \A t, u \in Tx : answer[t].code = 201 /\ answer[u].code = 201 => t = u
  /\ \A t \in Tx : answer[t].code \in {201, 404} => since[t] = {}

\* A history never lags behind a status: when any client was told a status, who
\* asks for the events from then on finds the one that led to it, although
\* status and events are read by different statements of different requests.
HistoryExplainsAnswers ==
  \A t \in Tx : answer[t].events # <<>> =>
    \A s \in since[t] : \E i \in 1..Len(answer[t].events) : answer[t].events[i].to = s
=============================================================================
