--------------------------- MODULE AcquirerService ---------------------------
(***************************************************************************)
(* acquirer-service: POST /internal/v1/payments (Program.cs),              *)
(* PaymentCoordinator.ExecuteAsync, IssuerClient and the payments table    *)
(* (PostgresPaymentRepository.cs), in front of what CardIssuer promises.   *)
(*                                                                         *)
(* Statements commit one by one and nothing is locked between them.  A     *)
(* handler may stop at any await (the 10 s of HttpClient, its client's     *)
(* hang-up, a restart) while the issuer goes on with its call, and other   *)
(* handlers may work on the same payment.                                  *)
(***************************************************************************)
EXTENDS CardIssuer

CONSTANTS
    Handlers,    \* the requests being handled, by any replica
    Posts,       \* the requests clients may send
    Refused,     \* the orders Validate refuses
    NoPost, NoRow, NoSession

Row == [order : {r.order : r \in Posts}, status : Outcomes \cup {"PENDING"}]

\* A post has an id and an order: the amount, the card, the payment type, the
\* merchant and the description.  The issuer is asked what passes Validate.
ASSUME PostsAssumption ==
    /\ \A r \in Posts \cup Payments : r.id \in PaymentIds
    /\ \A r \in Posts : r.order \notin Refused => r \in Payments

ASSUME OutcomesAssumption == Outcomes \cap {"PENDING", "CONFLICT", "ERROR"} = {}

ASSUME AbsenceAssumption ==
    /\ NoPayment \notin [request : Payments, decision : Outcomes]
    /\ NoRow \notin Row
    /\ NoSession \notin Sessions

VARIABLES
    rows,        \* acquiring_service.payments: order and status of each id
    step,        \* the next statement of each handler
    post,        \* the request it handles
    callee,      \* the session that serves its call
    decision,    \* the decision the issuer answered
    response     \* the HTTP response to its request

acquirerVars == <<rows, step, post, callee, decision, response>>
chainVars == <<issuerVars, acquirerVars>>

Working == {"insert", "select", "send", "await", "decide", "reread"}
Failures == {"INVALID", "CONFLICT", "UNAVAILABLE"}
None == "NONE"

AcquirerTypeOK ==
    /\ IssuerTypeOK
    /\ rows \in [PaymentIds -> Row \cup {NoRow}]
    /\ step \in [Handlers -> Working \cup {"idle", "done"}]
    /\ post \in [Handlers -> Posts \cup {NoPost}]
    /\ callee \in [Handlers -> Sessions \cup {NoSession}]
    /\ decision \in [Handlers -> Outcomes \cup {None}]
    /\ response \in [Handlers -> Outcomes \cup Failures \cup {None}]

AcquirerInit ==
    /\ IssuerInit
    /\ rows = [p \in PaymentIds |-> NoRow]
    /\ step = [h \in Handlers |-> "idle"]
    /\ post = [h \in Handlers |-> NoPost]
    /\ callee = [h \in Handlers |-> NoSession]
    /\ decision = [h \in Handlers |-> None]
    /\ response = [h \in Handlers |-> None]

-----------------------------------------------------------------------------
(* Helpers *)

Goto(h, statement) == step' = [step EXCEPT ![h] = statement]

\* The handler responds and listens to its call no longer.
Respond(h, r) ==
    /\ Goto(h, "done")
    /\ response' = [response EXCEPT ![h] = r]
    /\ callee' = [callee EXCEPT ![h] = NoSession]
    /\ decision' = [decision EXCEPT ![h] = None]
    /\ post' = [post EXCEPT ![h] = NoPost]

Awaited(s) == \E h \in Handlers : callee[h] = s

\* The row's hash is that of the request.
SameHash(row, r) == row.order = r.order

\* The issuer reports the type of the card, which a payment with the wrong card
\* does not have.
ValidDecision(d) == d # "PAYMENT_TYPE_MISMATCH"

-----------------------------------------------------------------------------
(* The handler *)

\* POST /internal/v1/payments, and Validate.
ReceivePayment(h, r) ==
    /\ step[h] = "idle"
    /\ \/ /\ r.order \notin Refused
          /\ Goto(h, "insert")
          /\ post' = [post EXCEPT ![h] = r]
          /\ UNCHANGED <<callee, decision, response>>
       \/ r.order \in Refused /\ Respond(h, "INVALID")
    /\ UNCHANGED <<issuerVars, rows>>

\* INSERT ... ON CONFLICT (payment_id) DO NOTHING
Insert(h) ==
    /\ step[h] = "insert"
    /\ rows' = [rows EXCEPT ![post[h].id] =
                   IF @ = NoRow THEN [order |-> post[h].order, status |-> "PENDING"] ELSE @]
    /\ Goto(h, "select")
    /\ UNCHANGED <<issuerVars, post, callee, decision, response>>

\* Fault: the hashes are compared only before the issuer is called.
SelectDecidedFirst(h) ==
    LET row == rows[post[h].id]
    IN /\ step[h] = "select"
       /\ \/ row.status \in Outcomes /\ Respond(h, row.status)
          \/ row.status = "PENDING" /\ ~SameHash(row, post[h]) /\ Respond(h, "CONFLICT")
          \/ /\ row.status = "PENDING" /\ SameHash(row, post[h])
             /\ Goto(h, "send")
             /\ UNCHANGED <<post, callee, decision, response>>
       /\ UNCHANGED <<issuerVars, rows>>

\* GetWithHashAsync, the comparison of the hashes and the return of a decided
\* payment.
Select(h) ==
    LET row == rows[post[h].id]
    IN /\ step[h] = "select"
       /\ \/ ~SameHash(row, post[h]) /\ Respond(h, "CONFLICT")
          \/ SameHash(row, post[h]) /\ row.status \in Outcomes /\ Respond(h, row.status)
          \/ /\ SameHash(row, post[h]) /\ row.status = "PENDING"
             /\ Goto(h, "send")
             /\ UNCHANGED <<post, callee, decision, response>>
       /\ UNCHANGED <<issuerVars, rows>>

\* IssuerClient.PayAsync posts the payment.
Send(h, s) ==
    /\ step[h] = "send"
    /\ ~Awaited(s)
    /\ Ask(s, post[h])
    /\ callee' = [callee EXCEPT ![h] = s]
    /\ Goto(h, "await")
    /\ UNCHANGED <<rows, post, decision, response>>

\* The issuer's answer: a decision, a conflict, or any other failure.
Answered(h) ==
    LET s == callee[h]
        a == calls[s].answer
    IN /\ step[h] = "await"
       /\ Forget(s)
       /\ \/ a = "CONFLICT" /\ Respond(h, "CONFLICT")
          \/ (a = "ERROR" \/ ~ValidDecision(a)) /\ Respond(h, "UNAVAILABLE")
          \/ /\ a \in Outcomes /\ ValidDecision(a)
             /\ Goto(h, "decide")
             /\ decision' = [decision EXCEPT ![h] = a]
             /\ callee' = [callee EXCEPT ![h] = NoSession]
             /\ UNCHANGED <<post, response>>
       /\ UNCHANGED rows

\* UPDATE ... WHERE payment_id = $1 AND status = 'PENDING'
DecideRow(h) ==
    /\ step[h] = "decide"
    /\ rows' = [rows EXCEPT ![post[h].id].status = IF @ = "PENDING" THEN decision[h] ELSE @]
    /\ Goto(h, "reread")
    /\ UNCHANGED <<issuerVars, post, callee, decision, response>>

\* GetAsync reports the row, whoever decided it.
Reread(h) ==
    /\ step[h] = "reread"
    /\ Respond(h, rows[post[h].id].status)
    /\ UNCHANGED <<issuerVars, rows>>

\* Fault: an issuer that does not answer is taken for a refusal.
GiveUpAsDeclined(h) ==
    /\ step[h] = "await"
    /\ Goto(h, "decide")
    /\ \E d \in Outcomes \ {"CAPTURED"} : decision' = [decision EXCEPT ![h] = d]
    /\ callee' = [callee EXCEPT ![h] = NoSession]
    /\ UNCHANGED <<issuerVars, rows, post, response>>

\* A timeout, a client that hung up, an exception or a restart, at any await.
GiveUp(h) ==
    /\ step[h] \in Working
    /\ Respond(h, "UNAVAILABLE")
    /\ UNCHANGED <<issuerVars, rows>>

\* The response leaves.
Hangup(h) ==
    /\ step[h] = "done"
    /\ Goto(h, "idle")
    /\ response' = [response EXCEPT ![h] = None]
    /\ UNCHANGED <<issuerVars, rows, post, callee, decision>>

HandlerStep(h) ==
    \/ Insert(h) \/ Select(h) \/ (\E s \in Sessions : Send(h, s))
    \/ Answered(h) \/ DecideRow(h) \/ Reread(h) \/ GiveUp(h)

\* The issuer goes on with its calls, awaited or not.
Serve(s) ==
    /\ Decide(s) \/ Break(s) \/ (~Awaited(s) /\ Forget(s))
    /\ UNCHANGED acquirerVars

AcquirerNext ==
    \/ \E h \in Handlers :
          (\E r \in Posts : ReceivePayment(h, r)) \/ HandlerStep(h) \/ Hangup(h)
    \/ \E s \in Sessions : Serve(s)

AcquirerSpec == AcquirerInit /\ [][AcquirerNext]_chainVars

-----------------------------------------------------------------------------
(* Properties *)

\* A payment the acquirer has decided was decided so by the issuer, for the
\* order of the row: over time-outs, overlapping attempts, repeated and
\* conflicting requests, neither service ever believes what the other does not.
\* PaymentCoordinator.cs:15-22, PostgresPaymentRepository.cs:42-47.
AcquirerAgreesWithIssuer ==
    \A p \in PaymentIds :
        rows[p] # NoRow /\ rows[p].status \in Outcomes =>
            /\ payments[p] # NoPayment
            /\ payments[p].decision = rows[p].status
            /\ payments[p].request.order = rows[p].order
=============================================================================
