------------------------- MODULE TransactionService -------------------------
(***************************************************************************)
(* transaction-service: POST /api/v1/transactions (Program.cs),            *)
(* TransferCoordinator.ExecuteAsync and the transactions table             *)
(* (PostgresTransactionRepository.cs), in front of AccountService.         *)
(*                                                                         *)
(* A handler's statements commit one by one; nothing is locked between     *)
(* them.  Its call to account-service travels to a session; the handler    *)
(* may stop waiting (the 10 s of HttpClient, a lost connection, a restart) *)
(* while the call is still on its way or being served, and the client may  *)
(* send the same Idempotency-Key again at any time.                        *)
(***************************************************************************)
EXTENDS AccountService

CONSTANTS
    Handlers,    \* the POST requests being handled, by any replica
    Posts,       \* the requests clients may send
    Descriptions \* transfer descriptions, trimmed

PostRequest ==
    [id : TransferIds, source : Nat, destination : Nat, amount : Int,
     description : Descriptions]

ASSUME PostsAssumption == Posts \subseteq PostRequest

\* The calls are transfer requests of account-service.
CallOf(r) ==
    [id |-> r.id, source |-> r.source, destination |-> r.destination, amount |-> r.amount]

ASSUME CallsAssumption == {CallOf(r) : r \in Posts} \subseteq Transfers

VARIABLES
    rows,        \* transaction_service.transactions, committed
    step,        \* the next statement of each handler
    post,        \* the request it handles
    call,        \* the session that serves its call, while it waits for it
    wire,        \* the call on its way to each session
    response,    \* the HTTP response to its request
    contended    \* history: ids sent again while an earlier attempt went on

coordinatorVars == <<rows, step, post, call, wire, response, contended>>
allVars == <<vars, coordinatorVars>>

Statuses == {"Pending", "Completed", "Failed"}

NoPost == [id |-> NoId]
NoRow == [status |-> "Absent"]
NoCall == [id |-> NoId]

\* The stored form of a request.
RowOf(r, s) ==
    [source |-> r.source, destination |-> r.destination, amount |-> r.amount,
     description |-> r.description, status |-> s]

Working == {"insert", "select", "send", "await", "complete", "fail", "reread"}
Responses == {"NONE", "OK", "ACCEPTED", "REJECTED", "CONFLICT", "UNAVAILABLE"}

CoordinatorTypeOK ==
    /\ rows \in [TransferIds -> {RowOf(r, s) : r \in Posts, s \in Statuses} \cup {NoRow}]
    /\ step \in [Handlers -> Working \cup {"idle", "done"}]
    /\ post \in [Handlers -> Posts \cup {NoPost}]
    /\ call \in [Handlers -> Sessions \cup {NoSession}]
    /\ wire \in [Sessions -> {CallOf(r) : r \in Posts} \cup {NoCall}]
    /\ response \in [Handlers -> Responses]
    /\ contended \subseteq TransferIds

CoordinatorInit ==
    /\ Init
    /\ rows = [k \in TransferIds |-> NoRow]
    /\ step = [h \in Handlers |-> "idle"]
    /\ post = [h \in Handlers |-> NoPost]
    /\ call = [h \in Handlers |-> NoSession]
    /\ wire = [s \in Sessions |-> NoCall]
    /\ response = [h \in Handlers |-> "NONE"]
    /\ contended = {}

-----------------------------------------------------------------------------
(* Helpers *)

\* An attempt at k that has not ended: a handler, a call under way or served.
InProgress(k) ==
    \/ \E h \in Handlers : step[h] \in Working /\ post[h].id = k
    \/ \E s \in Sessions : wire[s].id = k \/ (Serving(s) /\ key[s] = k)

Goto(h, statement) == step' = [step EXCEPT ![h] = statement]

\* The handler responds; it no longer listens to its call.
Respond(h, r) ==
    /\ Goto(h, "done")
    /\ response' = [response EXCEPT ![h] = r]
    /\ call' = [call EXCEPT ![h] = NoSession]
    /\ UNCHANGED <<post, contended>>

Awaited(s) == \E h \in Handlers : call[h] = s

SamePayload(row, r) == row = RowOf(r, row.status)

-----------------------------------------------------------------------------
(* The handler *)

\* POST /api/v1/transactions: the password is confirmed and a PIX key resolved
\* by calls that change nothing, then Validate refuses what account-service
\* would refuse as well.
ReceivePost(h, r) ==
    /\ step[h] = "idle"
    /\ post' = [post EXCEPT ![h] = r]
    /\ \/ /\ r.source # r.destination /\ r.amount > 0
          /\ Goto(h, "insert")
          /\ contended' = contended \cup (IF InProgress(r.id) THEN {r.id} ELSE {})
          /\ UNCHANGED response
       \/ /\ Goto(h, "done")
          /\ response' = [response EXCEPT ![h] = "REJECTED"]
          /\ UNCHANGED contended
    /\ UNCHANGED <<vars, rows, call, wire>>

\* Fault: ON CONFLICT (id) DO UPDATE.
InsertOrUpdate(h) ==
    /\ step[h] = "insert"
    /\ rows' = [rows EXCEPT ![post[h].id] = RowOf(post[h], "Pending")]
    /\ Goto(h, "select")
    /\ UNCHANGED <<vars, post, call, wire, response, contended>>

\* INSERT ... ON CONFLICT (id) DO NOTHING
Insert(h) ==
    LET r == post[h]
    IN /\ step[h] = "insert"
       /\ rows' = [rows EXCEPT ![r.id] = IF @ = NoRow THEN RowOf(r, "Pending") ELSE @]
       /\ Goto(h, "select")
       /\ UNCHANGED <<vars, post, call, wire, response, contended>>

\* GetAsync, EnsureSamePayload, and the return of a completed transaction.
Select(h) ==
    LET row == rows[post[h].id]
    IN /\ step[h] = "select"
       /\ \/ ~SamePayload(row, post[h]) /\ Respond(h, "CONFLICT")
          \/ /\ SamePayload(row, post[h]) /\ row.status = "Completed"
             /\ Respond(h, "OK")
          \/ /\ SamePayload(row, post[h]) /\ row.status # "Completed"
             /\ Goto(h, "send")
             /\ UNCHANGED <<post, call, response, contended>>
       /\ UNCHANGED <<vars, rows, wire>>

\* Fault: the whole request travels, its description included.
SendWholePost(h, s) ==
    /\ step[h] = "send"
    /\ pc[s] = "idle" /\ wire[s] = NoCall /\ ~Awaited(s)
    /\ wire' = [wire EXCEPT ![s] = post[h]]
    /\ call' = [call EXCEPT ![h] = s]
    /\ Goto(h, "await")
    /\ UNCHANGED <<vars, rows, post, response, contended>>

\* ApplyTransferAsync posts the call over a free connection.
Send(h, s) ==
    /\ step[h] = "send"
    /\ pc[s] = "idle" /\ wire[s] = NoCall /\ ~Awaited(s)
    /\ wire' = [wire EXCEPT ![s] = CallOf(post[h])]
    /\ call' = [call EXCEPT ![h] = s]
    /\ Goto(h, "await")
    /\ UNCHANGED <<vars, rows, post, response, contended>>

\* Fault: the status code of the answer is not looked at.
AnsweredWhatever(h) ==
    /\ step[h] = "await"
    /\ Return(call[h])
    /\ Goto(h, "complete")
    /\ call' = [call EXCEPT ![h] = NoSession]
    /\ UNCHANGED <<post, response, contended, rows, wire>>

\* The answer of account-service: success, a refusal below 500, or a 500 that
\* the coordinator does not catch.
Answered(h) ==
    LET s == call[h]
    IN /\ step[h] = "await"
       /\ Return(s)
       /\ \/ reply[s] = "COMPLETED" /\ Goto(h, "complete")
             /\ call' = [call EXCEPT ![h] = NoSession]
             /\ UNCHANGED <<post, response, contended>>
          \/ /\ reply[s] \notin {"COMPLETED", "ERROR"} /\ Goto(h, "fail")
             /\ call' = [call EXCEPT ![h] = NoSession]
             /\ UNCHANGED <<post, response, contended>>
          \/ reply[s] = "ERROR" /\ Respond(h, "UNAVAILABLE")
       /\ UNCHANGED <<rows, wire>>

\* CompleteAsync and FailAsync: UPDATE ... WHERE id = $1, whatever the status.
Complete(h) ==
    /\ step[h] = "complete"
    /\ rows' = [rows EXCEPT ![post[h].id].status = "Completed"]
    /\ Goto(h, "reread")
    /\ UNCHANGED <<vars, post, call, wire, response, contended>>

Fail(h) ==
    /\ step[h] = "fail"
    /\ rows' = [rows EXCEPT ![post[h].id].status = "Failed"]
    /\ Respond(h, "REJECTED")
    /\ UNCHANGED <<vars, wire>>

\* The SELECT after the UPDATE is a statement of its own: the response carries
\* the status another handler may have written in between.
Reread(h) ==
    /\ step[h] = "reread"
    /\ \/ rows[post[h].id].status = "Completed" /\ Respond(h, "OK")
       \/ rows[post[h].id].status # "Completed" /\ Respond(h, "ACCEPTED")
    /\ UNCHANGED <<vars, rows, wire>>

\* Fault: the client calls again after a timeout, inside the same attempt.
GiveUpAndResend(h) ==
    /\ step[h] = "await"
    /\ Goto(h, "send")
    /\ call' = [call EXCEPT ![h] = NoSession]
    /\ UNCHANGED <<vars, rows, post, wire, response, contended>>

\* Fault: a timeout is caught like a refusal and recorded as Failed.
GiveUpAsFailed(h) ==
    /\ step[h] = "await"
    /\ Goto(h, "fail")
    /\ call' = [call EXCEPT ![h] = NoSession]
    /\ UNCHANGED <<vars, rows, post, wire, response, contended>>

\* Timeout, lost connection, cancelled request or restart, at any await.
GiveUp(h) ==
    /\ step[h] \in Working
    /\ Respond(h, "UNAVAILABLE")
    /\ UNCHANGED <<vars, rows, wire>>

\* The response leaves.
Hangup(h) ==
    /\ step[h] = "done"
    /\ Goto(h, "idle")
    /\ post' = [post EXCEPT ![h] = NoPost]
    /\ response' = [response EXCEPT ![h] = "NONE"]
    /\ UNCHANGED <<vars, rows, call, wire, contended>>

-----------------------------------------------------------------------------
(* The connection to account-service, and account-service itself *)

Deliver(s) ==
    /\ wire[s] # NoCall
    /\ ReceiveTransfer(s, wire[s])
    /\ wire' = [wire EXCEPT ![s] = NoCall]
    /\ UNCHANGED <<rows, step, post, call, response, contended>>

\* The call never arrives; its handler can only give up.
Lose(s) ==
    /\ wire[s] # NoCall
    /\ wire' = [wire EXCEPT ![s] = NoCall]
    /\ UNCHANGED <<vars, rows, step, post, call, response, contended>>

\* An answer nobody waits for.
Drop(s) == ~Awaited(s) /\ Return(s) /\ UNCHANGED coordinatorVars

Serve(s) == (Step(s) \/ Crash(s)) /\ UNCHANGED coordinatorVars

HandlerStep(h) ==
    \/ Insert(h) \/ Select(h) \/ (\E s \in Sessions : Send(h, s)) \/ Answered(h)
    \/ Complete(h) \/ Fail(h) \/ Reread(h)

CoordinatorNext ==
    \/ \E h \in Handlers :
          \/ \E r \in Posts : ReceivePost(h, r)
          \/ HandlerStep(h) \/ GiveUp(h) \/ Hangup(h)
    \/ \E s \in Sessions : Deliver(s) \/ Lose(s) \/ Serve(s) \/ Drop(s)

CoordinatorSpec == CoordinatorInit /\ [][CoordinatorNext]_allVars

-----------------------------------------------------------------------------
(* Properties *)

\* Account-service never compares the payload of a key it knows; the row that
\* is inserted first does it for both: whatever moved under a key is what the
\* transactions row says.  TransferCoordinator.cs:11-12, 31-43.
MovedAsRecorded ==
    \A k \in TransferIds :
        Recorded(k) =>
            /\ rows[k] # NoRow
            /\ transfers[k].source = rows[k].source
            /\ transfers[k].destination = rows[k].destination
            /\ transfers[k].amount = rows[k].amount

\* A client that is told Completed had its own transfer, payload and all,
\* committed by account-service.  TransferCoordinator.cs:13-18.
OkMeansMoved ==
    \A h \in Handlers :
        response[h] = "OK" =>
            /\ rows[post[h].id].status # "Pending"
            /\ SamePayload(rows[post[h].id], post[h])
            /\ moved[post[h].id] >= post[h].amount

\* The status written is in step with the money.
StatusWritten ==
    \A k \in TransferIds \ contended' :
        rows'[k] # rows[k] =>
            moved[k] = IF rows'[k].status = "Completed" THEN rows'[k].amount ELSE 0

\* For a key no two attempts worked at together, the status is written in step
\* with the money: Failed only when nothing has moved, Completed only when the
\* amount has moved once, so that Completed is never taken back.  Nothing in the
\* UPDATE protects it (PostgresTransactionRepository.cs:69-76): the order of the
\* statements does.  A Failed row may lag behind a later attempt that moved the
\* money, because a retry does not set it back to Pending.
StatusFollowsMoney == [][StatusWritten]_allVars

\* transaction-service is what keeps two requests with one key apart in
\* account-service, except when the attempts themselves overlap.
OverlapOnlyWhenContended == overlapped \subseteq contended

\* src/app/README-banking.md:95-97: repeating the same request does not move
\* money again.
RepeatsMoveOnce ==
    \A k \in TransferIds : Recorded(k) => moved[k] = transfers[k].amount
=============================================================================
