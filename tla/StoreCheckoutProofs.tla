------------------------- MODULE StoreCheckoutProofs -------------------------
(***************************************************************************)
(* The acquirer and the shop in front of it, for every set of payments,    *)
(* handlers and sessions.                                                  *)
(*                                                                         *)
(* First AcquirerService alone: AcquirerAgreesWithIssuer is not inductive, *)
(* since what a handler writes must be what the issuer answered to its own *)
(* call, so the invariant follows the decision from the issuer's row to    *)
(* the call, to the handler, to the acquirer's row.                        *)
(*                                                                         *)
(* Then StoreCheckout: what the page shows is what the issuer decided, and *)
(* a repeated submit charges once.  The page, the store and its clients    *)
(* take no step that the acquirer does not allow, so the acquirer's        *)
(* invariant holds behind them; the page's own follows a decision from the *)
(* acquirer's response to the store's and to the page.                     *)
(***************************************************************************)
EXTENDS StoreCheckout, FiniteSetTheorems, TLAPS

(* The acquirer and the issuer *)

\* The issuer has decided request r as d.
Decided(r, d) ==
    /\ payments[r.id] # NoPayment
    /\ payments[r.id].request = r
    /\ payments[r.id].decision = d

\* The call that handler h waits for asks for its payment, or was answered.
CallInv(h) ==
    step[h] = "await" =>
        /\ callee[h] \in Sessions
        /\ \/ calls[callee[h]].state = "asked" /\ calls[callee[h]].request = post[h]
           \/ /\ calls[callee[h]].state = "told"
              /\ calls[callee[h]].answer \in Outcomes => Decided(post[h], calls[callee[h]].answer)

\* The row of the payment that handler h works on.
RowInv(h) ==
    /\ step[h] \in Working => post[h] \in Posts /\ post[h].order \notin Refused
    /\ step[h] \in Working \ {"insert"} => rows[post[h].id] # NoRow
    /\ step[h] \in {"send", "await", "decide", "reread"} =>
          rows[post[h].id].order = post[h].order
    /\ step[h] = "reread" => rows[post[h].id].status \in Outcomes

\* What handler h is about to write.
DecisionInv(h) ==
    step[h] = "decide" => decision[h] \in Outcomes /\ Decided(post[h], decision[h])

HandlerInv(h) ==
    /\ RowInv(h) /\ CallInv(h) /\ DecisionInv(h)
    /\ step[h] # "await" => callee[h] = NoSession

\* A session serves one handler.
OneCaller ==
    \A g, h \in Handlers : callee[g] = callee[h] /\ callee[g] # NoSession => g = h

IInv ==
    /\ AcquirerTypeOK
    /\ OneCaller
    /\ \A h \in Handlers : HandlerInv(h)
    /\ AcquirerAgreesWithIssuer

-----------------------------------------------------------------------------
\* A decision of the issuer stays.
PaymentsKept ==
    \A p \in PaymentIds : payments[p] # NoPayment => payments'[p] = payments[p]

\* So does a row, its order, and its decision.
RowsKept ==
    \A p \in PaymentIds : rows[p] # NoRow =>
        /\ rows'[p] # NoRow
        /\ rows'[p].order = rows[p].order
        /\ rows[p].status \in Outcomes => rows'[p].status = rows[p].status

\* The step does not touch what handler g knows, nor the call it waits for.
Spared(g) ==
    /\ step'[g] = step[g] /\ post'[g] = post[g]
    /\ callee'[g] = callee[g] /\ decision'[g] = decision[g]
    /\ step[g] = "await" => calls'[callee[g]] = calls[callee[g]]

\* Nothing is decided and nothing is under way at first.
LEMMA InitIInv == AcquirerInit => IInv
  <1> SUFFICES ASSUME AcquirerInit PROVE IInv
    OBVIOUS
  <1> USE DEF AcquirerInit, IssuerInit
  <1>1. AcquirerTypeOK
    BY DEF AcquirerTypeOK, IssuerTypeOK
  <1>2. OneCaller /\ \A h \in Handlers : HandlerInv(h)
    BY DEF OneCaller, HandlerInv, RowInv, CallInv, DecisionInv, Working
  <1>3. AcquirerAgreesWithIssuer
    BY DEF AcquirerAgreesWithIssuer
  <1> QED
    BY <1>1, <1>2, <1>3 DEF IInv

\* A handler that a step spares keeps its invariant.
LEMMA SparedHandler ==
    ASSUME IInv, NEW g \in Handlers, Spared(g), PaymentsKept, RowsKept
    PROVE  HandlerInv(g)'
  <1>1. HandlerInv(g)
    BY DEF IInv
  <1>2. step[g] \in Working => post[g].id \in PaymentIds
    BY <1>1, PostsAssumption DEF HandlerInv, RowInv
  <1>3. RowInv(g)'
    BY <1>1, <1>2 DEF HandlerInv, RowInv, Spared, RowsKept, Working
  <1>4. CallInv(g)'
    BY <1>1, <1>2 DEF HandlerInv, CallInv, Spared, PaymentsKept, Decided, Working
  <1>5. DecisionInv(g)'
    BY <1>1, <1>2 DEF HandlerInv, DecisionInv, Spared, PaymentsKept, Decided, Working
  <1> QED
    BY <1>1, <1>3, <1>4, <1>5 DEF HandlerInv, Spared

-----------------------------------------------------------------------------
(* The steps of a handler *)

\* The row of handler h decides nothing that the issuer has not decided.
RowAgrees(h) ==
    rows'[post[h].id].status \in Outcomes =>
        \/ rows[post[h].id] # NoRow /\ rows[post[h].id].status \in Outcomes
        \/ Decided(post[h], rows'[post[h].id].status) /\ rows'[post[h].id].order = post[h].order

\* A step of handler h that writes no row but its own, and takes no callee of
\* another handler.
OwnWrite(h) ==
    /\ payments' = payments
    /\ RowsKept
    /\ \A p \in PaymentIds : rows'[p] = rows[p] \/ (p = post[h].id /\ RowAgrees(h))
    /\ \A g \in Handlers \ {h} : Spared(g)
    /\ callee'[h] \in {callee[h], NoSession} \/ ~Awaited(callee'[h])

\* Such a step keeps the invariant if the handler keeps its own part.
LEMMA OwnStep ==
    ASSUME IInv, NEW h \in Handlers, AcquirerTypeOK', OwnWrite(h), HandlerInv(h)'
    PROVE  IInv'
  <1> USE DEF OwnWrite
  <1>1. PaymentsKept
    BY DEF PaymentsKept
  <1>2. \A g \in Handlers : HandlerInv(g)'
    BY <1>1, SparedHandler
  <1>3. OneCaller'
    BY DEF IInv, OneCaller, Spared, Awaited
  <1>4. AcquirerAgreesWithIssuer'
    <2> SUFFICES ASSUME NEW p \in PaymentIds, rows'[p] # NoRow, rows'[p].status \in Outcomes
                 PROVE  /\ payments[p] # NoPayment
                        /\ payments[p].decision = rows'[p].status
                        /\ payments[p].request.order = rows'[p].order
      BY DEF AcquirerAgreesWithIssuer
    <2>1. CASE rows'[p] = rows[p]
      BY <2>1 DEF IInv, AcquirerAgreesWithIssuer
    <2>2. CASE p = post[h].id /\ RowAgrees(h)
      <3>1. CASE rows[p] # NoRow /\ rows[p].status \in Outcomes
        BY <3>1 DEF IInv, AcquirerAgreesWithIssuer, RowsKept
      <3>2. CASE Decided(post[h], rows'[p].status) /\ rows'[p].order = post[h].order
        BY <2>2, <3>2 DEF Decided
      <3> QED
        BY <2>2, <3>1, <3>2 DEF RowAgrees
    <2> QED
      BY <2>1, <2>2
  <1> QED
    BY <1>2, <1>3, <1>4 DEF IInv

\* Responding ends the handler's part of the invariant.
LEMMA RespondStep ==
    ASSUME IInv, NEW h \in Handlers, NEW r \in Outcomes \cup Failures, Respond(h, r),
           UNCHANGED <<rows, payments>>,
           IssuerTypeOK',
           \A g \in Handlers \ {h} : step[g] = "await" => calls'[callee[g]] = calls[callee[g]]
    PROVE  IInv'
  <1>1. AcquirerTypeOK'
    BY DEF IInv, AcquirerTypeOK, Respond, Goto, None
  <1>2. RowsKept
    BY DEF RowsKept
  <1>3. \A g \in Handlers \ {h} : Spared(g)
    BY DEF IInv, AcquirerTypeOK, Respond, Goto, Spared
  <1>4. step'[h] = "done" /\ callee'[h] = NoSession
    BY DEF IInv, AcquirerTypeOK, Respond, Goto
  <1>5. HandlerInv(h)'
    BY <1>4 DEF HandlerInv, RowInv, CallInv, DecisionInv, Working
  <1>6. OwnWrite(h)
    BY <1>2, <1>3, <1>4 DEF OwnWrite
  <1> QED
    BY <1>1, <1>5, <1>6, OwnStep

LEMMA ReceiveStep ==
    ASSUME IInv, NEW h \in Handlers, NEW r \in Posts, ReceivePayment(h, r)
    PROVE  IInv'
  <1>1. CASE Respond(h, "INVALID")
    <2>1. UNCHANGED <<rows, payments, calls>>
      BY DEF ReceivePayment, issuerVars
    <2>2. IssuerTypeOK'
      BY <2>1 DEF IInv, AcquirerTypeOK, IssuerTypeOK
    <2> QED
      BY <1>1, <2>1, <2>2, RespondStep DEF Failures
  <1>2. CASE /\ r.order \notin Refused
             /\ Goto(h, "insert")
             /\ post' = [post EXCEPT ![h] = r]
             /\ UNCHANGED <<callee, decision, response>>
    <2> USE <1>2 DEF ReceivePayment, Goto, issuerVars
    <2>1. AcquirerTypeOK'
      BY DEF IInv, AcquirerTypeOK, IssuerTypeOK, Working
    <2>2. RowsKept
      BY DEF RowsKept
    <2>3. \A g \in Handlers \ {h} : Spared(g)
      BY DEF IInv, AcquirerTypeOK, Spared
    <2>4. HandlerInv(h)'
      BY DEF IInv, AcquirerTypeOK, HandlerInv, RowInv, CallInv, DecisionInv, Working
    <2>5. OwnWrite(h)
      BY <2>2, <2>3 DEF OwnWrite
    <2> QED
      BY <2>1, <2>4, <2>5, OwnStep
  <1> QED
    BY <1>1, <1>2 DEF ReceivePayment

LEMMA InsertStep ==
    ASSUME IInv, NEW h \in Handlers, Insert(h)
    PROVE  IInv'
  <1> DEFINE p == post[h].id
             new == [order |-> post[h].order, status |-> "PENDING"]
  <1>1. step[h] = "insert" /\ post[h] \in Posts /\ p \in PaymentIds
    BY PostsAssumption DEF Insert, IInv, HandlerInv, RowInv, Working
  <1>2. new \in Row
    BY <1>1 DEF Row
  <1>3. rows' = [rows EXCEPT ![p] = IF @ = NoRow THEN new ELSE @]
    BY DEF Insert
  <1>4. UNCHANGED <<payments, calls, post, callee, decision, response>>
    BY DEF Insert, issuerVars
  <1>5. AcquirerTypeOK'
    <2>1. IssuerTypeOK' /\ rows' \in [PaymentIds -> Row \cup {NoRow}]
      BY <1>2, <1>3, <1>4 DEF IInv, AcquirerTypeOK, IssuerTypeOK
    <2> QED
      BY <1>4, <2>1 DEF IInv, AcquirerTypeOK, Insert, Goto, Working
  <1>6. \A q \in PaymentIds : rows'[q] = IF q = p /\ rows[q] = NoRow THEN new ELSE rows[q]
    BY <1>3 DEF IInv, AcquirerTypeOK
  <1>7. RowsKept
    BY <1>6 DEF RowsKept
  <1>8. \A g \in Handlers \ {h} : Spared(g)
    BY <1>4 DEF IInv, AcquirerTypeOK, Spared, Insert, Goto
  <1>9. step'[h] = "select"
    BY DEF IInv, AcquirerTypeOK, Insert, Goto
  <1>10. rows'[p] # NoRow
    BY <1>1, <1>2, <1>6, AbsenceAssumption
  <1>11. HandlerInv(h)'
    BY <1>1, <1>4, <1>9, <1>10
    DEF IInv, HandlerInv, RowInv, CallInv, DecisionInv, Working
  <1>12. RowAgrees(h)
    BY <1>1, <1>6, OutcomesAssumption DEF RowAgrees
  <1>13. OwnWrite(h)
    BY <1>4, <1>6, <1>7, <1>8, <1>12 DEF OwnWrite
  <1> QED
    BY <1>5, <1>11, <1>13, OwnStep

\* A response when the issuer and the rows are left alone.
LEMMA RespondAlone ==
    ASSUME IInv, NEW h \in Handlers, NEW r \in Outcomes \cup Failures, Respond(h, r),
           UNCHANGED <<issuerVars, rows>>
    PROVE  IInv'
  <1>1. UNCHANGED <<rows, payments, calls>>
    BY DEF issuerVars
  <1>2. IssuerTypeOK'
    BY <1>1 DEF IInv, AcquirerTypeOK, IssuerTypeOK
  <1> QED
    BY <1>1, <1>2, RespondStep

\* A step that only advances handler h, when nothing else changes.
LEMMA AdvanceStep ==
    ASSUME IInv, NEW h \in Handlers, NEW next \in {"send", "idle"}, Goto(h, next),
           UNCHANGED <<issuerVars, rows, post, callee, decision>>,
           response' \in [Handlers -> Outcomes \cup Failures \cup {None}],
           step[h] # "await",
           next = "send" => /\ step[h] = "select"
                            /\ rows[post[h].id].order = post[h].order
    PROVE  IInv'
  <1> USE DEF issuerVars, Goto
  <1>1. AcquirerTypeOK'
    BY DEF IInv, AcquirerTypeOK, IssuerTypeOK, Working
  <1>2. OwnWrite(h)
    BY DEF IInv, AcquirerTypeOK, OwnWrite, RowsKept, Spared
  <1>3. step'[h] = next
    BY DEF IInv, AcquirerTypeOK
  <1>4. HandlerInv(h)'
    BY <1>3 DEF IInv, HandlerInv, RowInv, CallInv, DecisionInv, Working
  <1> QED
    BY <1>1, <1>2, <1>4, OwnStep

LEMMA SelectStep ==
    ASSUME IInv, NEW h \in Handlers, Select(h)
    PROVE  IInv'
  <1> DEFINE row == rows[post[h].id]
  <1>1. UNCHANGED <<issuerVars, rows>> /\ step[h] = "select"
    BY DEF Select
  <1>2. CASE Respond(h, "CONFLICT")
    BY <1>1, <1>2, RespondAlone DEF Failures
  <1>3. CASE row.status \in Outcomes /\ Respond(h, row.status)
    BY <1>1, <1>3, RespondAlone
  <1>4. CASE /\ SameHash(row, post[h])
             /\ Goto(h, "send")
             /\ UNCHANGED <<post, callee, decision, response>>
    BY <1>1, <1>4, AdvanceStep DEF IInv, AcquirerTypeOK, SameHash
  <1> QED
    BY <1>2, <1>3, <1>4 DEF Select

\* An answered call leaves nothing behind but the decision it reported.
LEMMA AnsweredStep ==
    ASSUME IInv, NEW h \in Handlers, Answered(h)
    PROVE  IInv'
  <1> DEFINE s == callee[h]
             a == calls[s].answer
  <1>1. step[h] = "await" /\ s \in Sessions /\ calls[s].state = "told"
    BY DEF Answered, Forget, IInv, HandlerInv, CallInv
  <1>2. UNCHANGED <<payments, rows>> /\ calls' = [calls EXCEPT ![s] = Free]
    BY DEF Answered, Forget
  <1>3. IssuerTypeOK'
    BY <1>2 DEF IInv, AcquirerTypeOK, IssuerTypeOK
  <1>4. \A g \in Handlers \ {h} : step[g] = "await" => calls'[callee[g]] = calls[callee[g]]
    <2> TAKE g \in Handlers \ {h}
    <2>1. step[g] = "await" => callee[g] \in Sessions /\ callee[g] # s
      BY <1>1, AbsenceAssumption DEF IInv, HandlerInv, CallInv, OneCaller
    <2> QED
      BY <1>2, <2>1 DEF IInv, AcquirerTypeOK, IssuerTypeOK
  <1>5. CASE Respond(h, "CONFLICT") \/ Respond(h, "UNAVAILABLE")
    BY <1>2, <1>3, <1>4, <1>5, RespondStep DEF Failures
  <1>6. CASE /\ a \in Outcomes
             /\ Goto(h, "decide")
             /\ decision' = [decision EXCEPT ![h] = a]
             /\ callee' = [callee EXCEPT ![h] = NoSession]
             /\ UNCHANGED <<post, response>>
    <2> USE <1>6 DEF Goto
    <2>1. AcquirerTypeOK'
      BY <1>2, <1>3 DEF IInv, AcquirerTypeOK, Working
    <2>2. \A g \in Handlers \ {h} : Spared(g)
      BY <1>4 DEF IInv, AcquirerTypeOK, Spared
    <2>3. step'[h] = "decide" /\ callee'[h] = NoSession /\ decision'[h] = a
      BY DEF IInv, AcquirerTypeOK
    <2>4. OwnWrite(h)
      BY <1>2, <2>2, <2>3 DEF OwnWrite, RowsKept
    <2>5. Decided(post[h], a)
      BY <1>1, <1>6 DEF IInv, HandlerInv, CallInv
    <2>6. HandlerInv(h)'
      BY <1>1, <1>2, <2>3, <2>5
      DEF IInv, HandlerInv, RowInv, CallInv, DecisionInv, Working, Decided
    <2> QED
      BY <2>1, <2>4, <2>6, OwnStep
  <1> QED
    BY <1>5, <1>6 DEF Answered

LEMMA DecideStep ==
    ASSUME IInv, NEW h \in Handlers, DecideRow(h)
    PROVE  IInv'
  <1> DEFINE p == post[h].id
             d == decision[h]
  <1>1. /\ step[h] = "decide" /\ post[h] \in Posts /\ p \in PaymentIds
        /\ rows[p] # NoRow /\ rows[p].order = post[h].order
        /\ d \in Outcomes /\ Decided(post[h], d)
    BY PostsAssumption DEF DecideRow, IInv, HandlerInv, RowInv, DecisionInv, Working
  <1>2. UNCHANGED <<payments, calls, post, callee, decision, response>>
    BY DEF DecideRow, issuerVars
  <1>3. rows[p] \in Row
    BY <1>1 DEF IInv, AcquirerTypeOK
  <1> DEFINE new == [rows[p] EXCEPT !.status = IF @ = "PENDING" THEN d ELSE @]
  <1>4. rows' = [rows EXCEPT ![p] = new]
    BY DEF DecideRow
  <1>5. /\ new \in Row /\ new.order = rows[p].order
        /\ new.status = IF rows[p].status = "PENDING" THEN d ELSE rows[p].status
    BY <1>1, <1>3 DEF Row
  <1> HIDE DEF new
  <1>6. \A q \in PaymentIds : rows'[q] = IF q = p THEN new ELSE rows[q]
    BY <1>4 DEF IInv, AcquirerTypeOK
  <1>7. AcquirerTypeOK'
    <2>1. IssuerTypeOK' /\ rows' \in [PaymentIds -> Row \cup {NoRow}]
      BY <1>2, <1>4, <1>5 DEF IInv, AcquirerTypeOK, IssuerTypeOK
    <2> QED
      BY <1>2, <2>1 DEF IInv, AcquirerTypeOK, DecideRow, Goto, Working
  <1>8. new # NoRow
    BY <1>5, AbsenceAssumption
  <1>9. RowsKept
    BY <1>1, <1>5, <1>6, <1>8, OutcomesAssumption DEF RowsKept
  <1>10. RowAgrees(h)
    BY <1>1, <1>3, <1>5, <1>6 DEF RowAgrees, Row
  <1>11. \A g \in Handlers \ {h} : Spared(g)
    BY <1>2 DEF IInv, AcquirerTypeOK, Spared, DecideRow, Goto
  <1>12. OwnWrite(h)
    BY <1>2, <1>6, <1>9, <1>10, <1>11 DEF OwnWrite
  <1>13. step'[h] = "reread"
    BY DEF IInv, AcquirerTypeOK, DecideRow, Goto
  <1>14. new.status \in Outcomes
    BY <1>1, <1>3, <1>5 DEF Row
  <1>15. HandlerInv(h)'
    BY <1>1, <1>2, <1>5, <1>6, <1>8, <1>13, <1>14
    DEF IInv, HandlerInv, RowInv, CallInv, DecisionInv, Working
  <1> QED
    BY <1>7, <1>12, <1>15, OwnStep

LEMMA SendStep ==
    ASSUME IInv, NEW h \in Handlers, NEW s \in Sessions, Send(h, s)
    PROVE  IInv'
  <1>1. step[h] = "send" /\ post[h] \in Payments
    BY PostsAssumption DEF Send, IInv, HandlerInv, RowInv, Working
  <1>2. UNCHANGED <<payments, rows, post, decision, response>> /\ ~Awaited(s)
    BY DEF Send, Ask
  <1>3. calls' = [calls EXCEPT ![s] = Asked(post[h])]
    BY DEF Send, Ask
  <1>4. /\ callee' = [callee EXCEPT ![h] = s]
        /\ step' = [step EXCEPT ![h] = "await"]
    BY DEF Send, Goto
  <1>5. IssuerTypeOK'
    BY <1>1, <1>2, <1>3 DEF IInv, AcquirerTypeOK, IssuerTypeOK
  <1>6. AcquirerTypeOK'
    BY <1>2, <1>4, <1>5 DEF IInv, AcquirerTypeOK, Working
  <1>7. calls'[s].state = "asked" /\ calls'[s].request = post[h]
    BY <1>3 DEF IInv, AcquirerTypeOK, IssuerTypeOK, Asked
  <1>8. step'[h] = "await" /\ callee'[h] = s
    BY <1>4 DEF IInv, AcquirerTypeOK
  <1>9. \A g \in Handlers \ {h} : Spared(g)
    <2> TAKE g \in Handlers \ {h}
    <2>1. step[g] = "await" => callee[g] \in Sessions /\ callee[g] # s
      BY <1>2 DEF IInv, HandlerInv, CallInv, Awaited
    <2> QED
      BY <1>2, <1>3, <1>4, <2>1 DEF IInv, AcquirerTypeOK, IssuerTypeOK, Spared
  <1>10. OwnWrite(h)
    BY <1>2, <1>8, <1>9 DEF OwnWrite, RowsKept
  <1>11. HandlerInv(h)'
    BY <1>1, <1>2, <1>7, <1>8 DEF IInv, HandlerInv, RowInv, CallInv, DecisionInv, Working
  <1> QED
    BY <1>6, <1>10, <1>11, OwnStep

\* The other steps of a handler respond, or only advance it.
LEMMA HandlerKeepsIInv ==
    ASSUME IInv, NEW h \in Handlers, HandlerStep(h) \/ Hangup(h)
    PROVE  IInv'
  <1>1. CASE Reread(h)
    <2>1. rows[post[h].id].status \in Outcomes
      BY <1>1 DEF Reread, IInv, HandlerInv, RowInv
    <2> QED
      BY <1>1, <2>1, RespondAlone DEF Reread
  <1>2. CASE GiveUp(h)
    BY <1>2, RespondAlone DEF GiveUp, Failures
  <1>3. CASE Hangup(h)
    <2>1. response' \in [Handlers -> Outcomes \cup Failures \cup {None}]
      BY <1>3 DEF Hangup, IInv, AcquirerTypeOK
    <2> QED
      BY <1>3, <2>1, AdvanceStep DEF Hangup
  <1> QED
    BY <1>1, <1>2, <1>3, InsertStep, SelectStep, SendStep, AnsweredStep, DecideStep
    DEF HandlerStep

-----------------------------------------------------------------------------
(* The steps of the issuer *)

\* The issuer decides no payment twice, and answers what it has decided.
LEMMA IssuerAnswers ==
    ASSUME IInv, NEW s \in Sessions, Decide(s) \/ Break(s)
    PROVE  \E q \in Payments, a \in Outcomes \cup {"CONFLICT", "ERROR"} :
              /\ calls[s].state = "asked" /\ q = calls[s].request
              /\ calls' = [calls EXCEPT ![s] = Told(a)]
              /\ payments' \in [PaymentIds -> [request : Payments, decision : Outcomes]
                                              \cup {NoPayment}]
              /\ PaymentsKept
              /\ a \in Outcomes => Decided(q, a)'
  <1> DEFINE q == calls[s].request
  <1> USE DEF Answer, PaymentsKept
  <1>1. IssuerTypeOK
    BY DEF IInv, AcquirerTypeOK
  <1>2. calls[s].state = "asked"
    BY DEF Decide, Repeat, Authorize, Break
  <1>3. q \in Payments /\ q.id \in PaymentIds
    BY <1>1, <1>2, PostsAssumption DEF IssuerTypeOK, Asked, Told, Free
  <1>4. CASE Break(s)
    BY <1>1, <1>2, <1>3, <1>4, OutcomesAssumption DEF Break, IssuerTypeOK
  <1>5. CASE Repeat(s)
    <2> DEFINE stored == payments[q.id]
    <2>1. UNCHANGED payments /\ stored # NoPayment
      BY <1>5 DEF Repeat
    <2>2. stored.decision \in Outcomes
      BY <1>1, <1>3, <2>1 DEF IssuerTypeOK
    <2>3. CASE stored.request = q
      <3>1. calls' = [calls EXCEPT ![s] = Told(stored.decision)]
        BY <1>5, <2>3 DEF Repeat
      <3>2. PICK a \in Outcomes : a = stored.decision
        BY <2>2
      <3> QED
        BY <1>1, <1>2, <1>3, <2>1, <2>3, <3>1, <3>2 DEF IssuerTypeOK, Decided
    <2>4. CASE stored.request # q
      BY <1>1, <1>2, <1>3, <1>5, <2>1, <2>4, OutcomesAssumption DEF IssuerTypeOK, Repeat
    <2> QED
      BY <2>3, <2>4
  <1>6. ASSUME NEW d \in Outcomes, Authorize(s, d)
        PROVE  \E r \in Payments, a \in Outcomes :
                  /\ r = q
                  /\ calls' = [calls EXCEPT ![s] = Told(a)]
                  /\ payments' \in [PaymentIds -> [request : Payments, decision : Outcomes]
                                                  \cup {NoPayment}]
                  /\ PaymentsKept
                  /\ Decided(r, a)'
    <2>1. PICK r \in Payments : r = q
      BY <1>3
    <2>2. /\ payments[r.id] = NoPayment
          /\ payments' = [payments EXCEPT ![r.id] = [request |-> r, decision |-> d]]
          /\ calls' = [calls EXCEPT ![s] = Told(d)]
      BY <1>6, <2>1 DEF Authorize
    <2>3. Decided(r, d)' /\ PaymentsKept
      BY <1>1, <1>3, <2>1, <2>2, AbsenceAssumption DEF IssuerTypeOK, Decided
    <2> QED
      BY <1>1, <2>1, <2>2, <2>3 DEF IssuerTypeOK
  <1>7. CASE \E d \in Outcomes : Authorize(s, d)
    BY <1>2, <1>6, <1>7
  <1> QED
    BY <1>4, <1>5, <1>7 DEF Decide

LEMMA ServeStep ==
    ASSUME IInv, NEW s \in Sessions, Serve(s)
    PROVE  IInv'
  <1>1. UNCHANGED <<rows, step, post, callee, decision, response>>
    BY DEF Serve, acquirerVars
  <1>2. RowsKept
    BY <1>1 DEF RowsKept
  <1>3. ASSUME IssuerTypeOK', PaymentsKept, \A h \in Handlers : HandlerInv(h)'
        PROVE  IInv'
    <2>1. AcquirerTypeOK' /\ OneCaller'
      BY <1>1, <1>3 DEF IInv, AcquirerTypeOK, OneCaller
    <2>2. AcquirerAgreesWithIssuer'
      BY <1>1, <1>3 DEF IInv, AcquirerAgreesWithIssuer, PaymentsKept
    <2> QED
      BY <1>3, <2>1, <2>2 DEF IInv
  <1>4. CASE ~Awaited(s) /\ Forget(s)
    <2>1. UNCHANGED payments /\ calls' = [calls EXCEPT ![s] = Free]
      BY <1>4 DEF Forget
    <2>2. IssuerTypeOK' /\ PaymentsKept
      BY <2>1 DEF IInv, AcquirerTypeOK, IssuerTypeOK, PaymentsKept
    <2>3. \A h \in Handlers : Spared(h)
      BY <1>1, <1>4, <2>1
      DEF IInv, AcquirerTypeOK, IssuerTypeOK, HandlerInv, CallInv, Spared, Awaited
    <2> QED
      BY <1>2, <1>3, <2>2, <2>3, SparedHandler
  <1>5. CASE Decide(s) \/ Break(s)
    <2>1. PICK q \in Payments, a \in Outcomes \cup {"CONFLICT", "ERROR"} :
              /\ calls[s].state = "asked" /\ q = calls[s].request
              /\ calls' = [calls EXCEPT ![s] = Told(a)]
              /\ payments' \in [PaymentIds -> [request : Payments, decision : Outcomes]
                                              \cup {NoPayment}]
              /\ PaymentsKept
              /\ a \in Outcomes => Decided(q, a)'
      BY <1>5, IssuerAnswers
    <2>2. IssuerTypeOK'
      BY <2>1 DEF IInv, AcquirerTypeOK, IssuerTypeOK
    <2>3. ASSUME NEW h \in Handlers PROVE HandlerInv(h)'
      <3>1. CASE step[h] = "await" /\ callee[h] = s
        <4>1. calls'[s].state = "told" /\ calls'[s].answer = a
          BY <2>1 DEF IInv, AcquirerTypeOK, IssuerTypeOK, Told
        <4>2. q = post[h]
          BY <2>1, <3>1 DEF IInv, HandlerInv, CallInv
        <4>3. a \in Outcomes => /\ payments'[q.id] # NoPayment
                                /\ payments'[q.id].request = q
                                /\ payments'[q.id].decision = a
          BY <2>1 DEF Decided
        <4> QED
          BY <1>1, <3>1, <4>1, <4>2, <4>3
          DEF IInv, HandlerInv, RowInv, CallInv, DecisionInv, Decided, Working
      <3>2. CASE ~(step[h] = "await" /\ callee[h] = s)
        <4>1. Spared(h)
          BY <1>1, <2>1, <3>2 DEF IInv, AcquirerTypeOK, IssuerTypeOK, HandlerInv, CallInv, Spared
        <4> QED
          BY <1>2, <2>1, <4>1, SparedHandler
      <3> QED
        BY <3>1, <3>2
    <2> QED
      BY <1>3, <2>1, <2>2, <2>3
  <1> QED
    BY <1>4, <1>5 DEF Serve

-----------------------------------------------------------------------------
\* Every step keeps the invariant.
LEMMA NextIInv == IInv /\ [AcquirerNext]_chainVars => IInv'
  <1> SUFFICES ASSUME IInv, [AcquirerNext]_chainVars PROVE IInv'
    OBVIOUS
  <1>1. CASE AcquirerNext
    BY <1>1, ReceiveStep, HandlerKeepsIInv, ServeStep DEF AcquirerNext
  <1>2. CASE UNCHANGED chainVars
    BY <1>2
    DEF chainVars, issuerVars, acquirerVars, IInv, AcquirerTypeOK, IssuerTypeOK, OneCaller,
        HandlerInv, RowInv, CallInv, DecisionInv, Decided, AcquirerAgreesWithIssuer
  <1> QED
    BY <1>1, <1>2

\* The invariant holds throughout: no handler is ever about to write what the
\* issuer has not decided (PaymentCoordinator.cs:15-22).
THEOREM AcquirerInvariant == AcquirerSpec => []IInv
  BY InitIInv, NextIInv, PTL DEF AcquirerSpec

\* For every set of payments, handlers and sessions, a payment the acquirer has
\* decided was decided so by the issuer, for the same order
\* (PaymentCoordinator.cs:15-22, PostgresPaymentRepository.cs:42-47).
THEOREM AcquirerAgreement == AcquirerSpec => []AcquirerAgreesWithIssuer
  <1>1. IInv => AcquirerAgreesWithIssuer
    BY DEF IInv
  <1> QED
    BY <1>1, AcquirerInvariant, PTL

-----------------------------------------------------------------------------
\* Every step of the acquirer is one of the issuer's promise, or shows nothing
\* of it: a call is made for a payment, by a free session.
LEMMA PromiseStep ==
    ASSUME IInv, [AcquirerNext]_chainVars
    PROVE  [IssuerNext]_issuerVars
  <1> USE DEF IssuerNext
  <1>1. ASSUME NEW h \in Handlers, NEW r \in Posts, ReceivePayment(h, r)
        PROVE  UNCHANGED issuerVars
    BY <1>1 DEF ReceivePayment
  <1>2. ASSUME NEW h \in Handlers, NEW s \in Sessions, Send(h, s) PROVE IssuerNext
    <2>1. post[h] \in Payments
      BY <1>2, PostsAssumption DEF Send, IInv, HandlerInv, RowInv, Working
    <2> QED
      BY <1>2, <2>1 DEF Send
  <1>3. ASSUME NEW h \in Handlers, Answered(h) PROVE IssuerNext
    <2>1. callee[h] \in Sessions /\ Forget(callee[h])
      BY <1>3 DEF Answered, IInv, HandlerInv, CallInv
    <2> QED
      BY <2>1
  <1>4. ASSUME NEW h \in Handlers,
               Insert(h) \/ Select(h) \/ DecideRow(h) \/ Reread(h) \/ GiveUp(h) \/ Hangup(h)
        PROVE  UNCHANGED issuerVars
    BY <1>4 DEF Insert, Select, DecideRow, Reread, GiveUp, Hangup
  <1>5. ASSUME NEW s \in Sessions, Serve(s) PROVE IssuerNext
    BY <1>5 DEF Serve
  <1>6. CASE UNCHANGED chainVars
    BY <1>6 DEF chainVars
  <1> QED
    BY <1>1, <1>2, <1>3, <1>4, <1>5, <1>6 DEF AcquirerNext, HandlerStep

\* The acquirer stays within the promise it is built on: whatever it repeats or
\* abandons, it asks for payments only, of free sessions, and takes one answer to
\* each call (IssuerClient.PayAsync).  CardService implements the same promise.
THEOREM AcquirerKeepsPromise == AcquirerSpec => IssuerSpec
  <1>1. AcquirerInit => IssuerInit
    BY DEF AcquirerInit
  <1>2. IInv /\ [AcquirerNext]_chainVars => [IssuerNext]_issuerVars
    BY PromiseStep
  <1> QED
    BY <1>1, <1>2, AcquirerInvariant, PTL DEF AcquirerSpec, IssuerSpec

-----------------------------------------------------------------------------
(* The page and the store *)

\* The issuer has decided payment k, for order o, as d.
Ruled(k, o, d) ==
    /\ payments[k] # NoPayment
    /\ payments[k].decision = d
    /\ payments[k].request.order = o

\* The fetch is one of the page's, and so is the form.
FetchInv ==
    /\ form \in Orders \cup {NoOrder}
    /\ fetch.state \in {"none", "sent", "posted", "answered"}
    /\ fetch.state # "none" => fetch.key \in PaymentIds /\ fetch.order \in Orders

\* The handler that the store waits for handles the request of the page, until
\* it responds with what the issuer decided.
PostedInv ==
    fetch.state = "posted" =>
        LET h == fetch.handler
        IN /\ h \in Handlers
           /\ step[h] \in Working =>
                 post[h].id = fetch.key /\ post[h].order = fetch.order
           /\ step[h] = "done" /\ response[h] \in Outcomes =>
                 Ruled(fetch.key, fetch.order, response[h])
           /\ step[h] # "idle"

\* So does the store.
AnsweredInv ==
    fetch.state = "answered" /\ fetch.reply \in Outcomes =>
        Ruled(fetch.key, fetch.order, fetch.reply)

ShownInv ==
    shown.outcome \in Outcomes =>
        shown.key \in PaymentIds /\ Ruled(shown.key, shown.order, shown.outcome)

\* A purchase has one key: the one kept for a repetition.
KeysInv ==
    /\ drawn \subseteq {retryKey}
    /\ retryKey = NoKey => drawn = {}
    /\ \A keys \in earlier : \E k : keys \subseteq {k}

PageInv == FetchInv /\ PostedInv /\ AnsweredInv /\ ShownInv

-----------------------------------------------------------------------------
(* The acquirer behind the store *)

\* Every step is one of the acquirer, or leaves it alone.
LEMMA StoreStep ==
    ASSUME PageInv, [Next]_vars
    PROVE  [AcquirerNext]_chainVars
  <1> USE DEF AcquirerNext
  <1>1. CASE (\E o \in Orders : Edit(o)) \/ Reload \/ (\E k \in PaymentIds : Submit(k))
             \/ ShowFailure \/ ShowResult \/ Fail
    BY <1>1 DEF Edit, Reload, Submit, ShowFailure, ShowResult, Fail
  <1>2. CASE Relay
    BY <1>2 DEF Relay, PageInv, PostedInv
  <1>3. ASSUME NEW h \in Handlers, Checkout(h) PROVE AcquirerNext
    <2>1. [id |-> fetch.key, order |-> fetch.order] \in Posts
      BY <1>3, StoreAssumption DEF PageInv, FetchInv, Checkout
    <2> QED
      BY <1>3, <2>1 DEF Checkout
  <1>4. ASSUME NEW h \in Handlers, Acquirer(h) PROVE AcquirerNext
    BY <1>4 DEF Acquirer
  <1>5. ASSUME NEW h \in Handlers, NEW r \in OtherPosts, OtherPost(h, r) PROVE AcquirerNext
    BY <1>5, StoreAssumption DEF OtherPost
  <1>6. CASE UNCHANGED vars
    BY <1>6 DEF vars
  <1> QED
    BY <1>1, <1>2, <1>3, <1>4, <1>5, <1>6 DEF Next

\* No step undoes a decision of the issuer.
LEMMA DecisionsKept ==
    ASSUME IInv, [AcquirerNext]_chainVars
    PROVE  PaymentsKept
  <1>1. ASSUME NEW h \in Handlers, NEW r \in Posts, ReceivePayment(h, r)
        PROVE  UNCHANGED payments
    BY <1>1 DEF ReceivePayment, issuerVars
  <1>2. ASSUME NEW h \in Handlers, HandlerStep(h) \/ Hangup(h)
        PROVE  UNCHANGED payments
    BY <1>2
    DEF HandlerStep, Hangup, Insert, Select, Send, Ask, Answered, Forget, DecideRow, Reread,
        GiveUp, issuerVars
  <1>3. ASSUME NEW s \in Sessions, Serve(s) PROVE PaymentsKept
    <2>1. CASE Decide(s) \/ Break(s)
      BY <2>1, IssuerAnswers
    <2>2. CASE Forget(s)
      BY <2>2 DEF Forget, PaymentsKept
    <2> QED
      BY <1>3, <2>1, <2>2 DEF Serve
  <1>4. CASE UNCHANGED chainVars
    BY <1>4 DEF chainVars, issuerVars, PaymentsKept
  <1> QED
    BY <1>1, <1>2, <1>3, <1>4 DEF AcquirerNext, PaymentsKept

\* What a decided row says, the issuer has decided.
LEMMA RowRuled ==
    ASSUME IInv, NEW h \in Handlers, step[h] \in Working,
           rows[post[h].id] # NoRow, rows[post[h].id].order = post[h].order,
           rows[post[h].id].status \in Outcomes
    PROVE  Ruled(post[h].id, post[h].order, rows[post[h].id].status)
  <1>1. post[h].id \in PaymentIds
    BY PostsAssumption DEF IInv, HandlerInv, RowInv
  <1> QED
    BY <1>1 DEF IInv, AcquirerAgreesWithIssuer, Ruled

\* A handler works on its request until it responds; a decision it responds
\* with is the issuer's.
LEMMA HandlerResponds ==
    ASSUME IInv, NEW h \in Handlers, HandlerStep(h)
    PROVE  /\ step[h] \in Working /\ step'[h] \in Working \cup {"done"}
           /\ step'[h] \in Working => post'[h] = post[h]
           /\ \A d \in Outcomes : step'[h] = "done" /\ response'[h] = d =>
                 Ruled(post[h].id, post[h].order, d)
           /\ \A g \in Handlers \ {h} :
                 step'[g] = step[g] /\ post'[g] = post[g] /\ response'[g] = response[g]
  <1> USE DEF Goto, Respond, Working
  <1>1. AcquirerTypeOK /\ RowInv(h)
    BY DEF IInv, HandlerInv
  <1>2. CASE Insert(h) \/ DecideRow(h) \/ \E s \in Sessions : Send(h, s)
    BY <1>1, <1>2 DEF AcquirerTypeOK, Insert, DecideRow, Send
  <1>3. CASE Select(h)
    <2>1. /\ step[h] = "select" /\ rows[post[h].id] # NoRow
          /\ SameHash(rows[post[h].id], post[h]) =>
                rows[post[h].id].order = post[h].order
      BY <1>1, <1>3 DEF Select, RowInv, SameHash
    <2> QED
      BY <1>1, <1>3, <2>1, RowRuled, StoreAssumption DEF AcquirerTypeOK, Select, Failures
  <1>4. CASE Reread(h)
    BY <1>1, <1>4, RowRuled DEF AcquirerTypeOK, Reread, RowInv
  <1>5. CASE GiveUp(h)
    BY <1>1, <1>5, StoreAssumption DEF AcquirerTypeOK, GiveUp, Failures
  <1>6. CASE Answered(h)
    BY <1>1, <1>6, StoreAssumption DEF AcquirerTypeOK, Answered, Failures
  <1> QED
    BY <1>2, <1>3, <1>4, <1>5, <1>6 DEF HandlerStep

-----------------------------------------------------------------------------
(* The page and the store *)

\* What is decided stays so.
LEMMA RuledKept ==
    ASSUME PaymentsKept, NEW k \in PaymentIds, NEW o, NEW d, Ruled(k, o, d)
    PROVE  Ruled(k, o, d)'
  BY DEF PaymentsKept, Ruled

LEMMA InitPageInv == Init => PageInv /\ KeysInv
  BY StoreAssumption
  DEF Init, PageInv, FetchInv, PostedInv, AnsweredInv, ShownInv, KeysInv, NoFetch, Nothing

\* Steps behind the page and the store.
LEMMA BehindStep ==
    ASSUME PageInv, PaymentsKept, UNCHANGED <<form, fetch, shown>>,
           fetch.state = "posted" => PostedInv'
    PROVE  PageInv'
  <1>1. FetchInv'
    BY DEF PageInv, FetchInv
  <1>2. AnsweredInv'
    BY RuledKept DEF PageInv, FetchInv, AnsweredInv
  <1>3. ShownInv'
    BY RuledKept DEF PageInv, ShownInv
  <1>4. PostedInv'
    BY DEF PostedInv
  <1> QED
    BY <1>1, <1>2, <1>3, <1>4 DEF PageInv

\* Another handler, or one of them handling another request, goes unnoticed.
LEMMA UnnoticedStep ==
    ASSUME PageInv, PaymentsKept, UNCHANGED <<form, fetch, shown>>,
           \A h \in Handlers : Listening(h) =>
              step'[h] = step[h] /\ post'[h] = post[h] /\ response'[h] = response[h]
    PROVE  PageInv'
  <1>1. ASSUME fetch.state = "posted" PROVE PostedInv'
    BY <1>1, RuledKept DEF PageInv, FetchInv, PostedInv, Listening
  <1> QED
    BY <1>1, BehindStep

LEMMA AcquirerStep ==
    ASSUME IInv, PageInv, PaymentsKept, NEW h \in Handlers, Acquirer(h)
    PROVE  PageInv'
  <1>1. UNCHANGED <<form, fetch, shown>>
    BY DEF Acquirer, pageVars
  <1>2. CASE ~Listening(h) /\ Hangup(h)
    BY <1>1, <1>2, UnnoticedStep DEF Hangup, Goto, IInv, AcquirerTypeOK
  <1>3. CASE HandlerStep(h) /\ ~Listening(h)
    BY <1>1, <1>3, UnnoticedStep, HandlerResponds
  <1>4. CASE HandlerStep(h) /\ Listening(h)
    <2>1. fetch.state = "posted" /\ fetch.handler = h
      BY <1>4 DEF Listening
    <2>2. post[h].id = fetch.key /\ post[h].order = fetch.order
      BY <1>4, <2>1, HandlerResponds DEF PageInv, PostedInv
    <2>3. fetch.key \in PaymentIds
      BY <2>1 DEF PageInv, FetchInv
    <2>4. step'[h] = "done" /\ response'[h] \in Outcomes =>
             /\ payments'[fetch.key] # NoPayment
             /\ payments'[fetch.key].decision = response'[h]
             /\ payments'[fetch.key].request.order = fetch.order
      <3>1. SUFFICES ASSUME NEW d \in Outcomes, step'[h] = "done", response'[h] = d
                     PROVE  Ruled(fetch.key, fetch.order, d) /\ fetch.key \in PaymentIds
        BY DEF PaymentsKept, Ruled
      <3> QED
        BY <1>4, <2>2, <2>3, <3>1, HandlerResponds
    <2>5. PostedInv'
      BY <1>1, <1>4, <2>1, <2>2, <2>4, HandlerResponds DEF PostedInv, Working, Ruled
    <2> QED
      BY <1>1, <2>5, BehindStep
  <1> QED
    BY <1>2, <1>3, <1>4 DEF Acquirer

\* A request arrives: the page's own, or another.
LEMMA ArrivalStep ==
    ASSUME IInv, PageInv, PaymentsKept, NEW h \in Handlers
    PROVE  /\ Checkout(h) => PageInv'
           /\ \A r \in OtherPosts : OtherPost(h, r) => PageInv'
  <1>1. ASSUME Checkout(h) PROVE PageInv'
    <2> DEFINE r == [id |-> fetch.key, order |-> fetch.order]
    <2>1. /\ fetch.state = "sent" /\ ReceivePayment(h, r)
          /\ fetch' = [state |-> "posted", key |-> fetch.key, order |-> fetch.order, handler |-> h]
          /\ UNCHANGED <<form, shown>>
      BY <1>1 DEF Checkout
    <2>2. FetchInv' /\ AnsweredInv'
      BY <2>1 DEF PageInv, FetchInv, AnsweredInv
    <2>3. ShownInv'
      BY <2>1, RuledKept DEF PageInv, ShownInv
    <2>4. \/ step'[h] = "insert" /\ post'[h] = r
          \/ step'[h] = "done" /\ response'[h] = "INVALID"
      BY <2>1 DEF ReceivePayment, Respond, Goto, IInv, AcquirerTypeOK
    <2>5. PostedInv'
      BY <2>1, <2>4, StoreAssumption DEF PostedInv, Failures, Working
    <2> QED
      BY <2>2, <2>3, <2>5 DEF PageInv
  <1>2. ASSUME NEW r \in OtherPosts, OtherPost(h, r) PROVE PageInv'
    <2>1. step[h] = "idle" /\ UNCHANGED <<form, fetch, shown>>
      BY <1>2 DEF OtherPost, ReceivePayment, pageVars
    <2>2. ~Listening(h)
      BY <2>1 DEF PageInv, PostedInv, Listening
    <2>3. \A g \in Handlers \ {h} :
             step'[g] = step[g] /\ post'[g] = post[g] /\ response'[g] = response[g]
      BY <1>2 DEF OtherPost, ReceivePayment, Respond, Goto, IInv, AcquirerTypeOK
    <2> QED
      BY <2>1, <2>2, <2>3, UnnoticedStep
  <1> QED
    BY <1>1, <1>2

\* The page moves on: what it knows of the acquirer stays true.
LEMMA PageStep ==
    ASSUME PageInv, UNCHANGED <<payments, step, post, response>>,
           FetchInv', fetch' = fetch \/ fetch'.state \notin {"posted", "answered"},
           \/ shown' = shown \/ shown'.outcome \notin Outcomes
           \/ /\ fetch.state = "answered" /\ shown'.outcome = fetch.reply
              /\ shown'.key = fetch.key /\ shown'.order = fetch.order
    PROVE  PageInv'
  <1>1. PostedInv'
    BY DEF PageInv, PostedInv, Ruled
  <1>2. AnsweredInv'
    BY DEF PageInv, AnsweredInv, Ruled
  <1>3. ShownInv'
    BY DEF PageInv, FetchInv, AnsweredInv, ShownInv, Ruled
  <1> QED
    BY <1>1, <1>2, <1>3 DEF PageInv

\* A response travels back: a decision is the handler's.
LEMMA ReplyStep ==
    ASSUME IInv, PageInv, Relay \/ Fail
    PROVE  PageInv'
  <1>1. PICK r : /\ fetch' = [state |-> "answered", key |-> fetch.key,
                              order |-> fetch.order, reply |-> r]
                 /\ r \in Outcomes => Ruled(fetch.key, fetch.order, r)
    <2>1. CASE Fail
      BY <2>1, StoreAssumption DEF Fail, Reply
    <2>2. CASE Relay
      <3>1. response[fetch.handler] \in Outcomes =>
               Ruled(fetch.key, fetch.order, response[fetch.handler])
        BY <2>2 DEF Relay, Hangup, PageInv, PostedInv
      <3> QED
        BY <2>2, <3>1, StoreAssumption, OutcomesAssumption DEF Relay, Reply
    <2> QED
      BY <2>1, <2>2
  <1>2. UNCHANGED <<payments, form, shown>> /\ fetch.state \in {"sent", "posted"}
    BY DEF Relay, Fail, Hangup, chainVars, issuerVars
  <1>3. FetchInv' /\ PostedInv'
    BY <1>1, <1>2 DEF PageInv, FetchInv, PostedInv
  <1>4. AnsweredInv' /\ ShownInv'
    BY <1>1, <1>2 DEF PageInv, AnsweredInv, ShownInv, Ruled
  <1> QED
    BY <1>3, <1>4 DEF PageInv

\* Every step keeps the page's invariant.
LEMMA NextPageInv ==
    ASSUME IInv, PageInv, [Next]_vars
    PROVE  PageInv'
  <1> USE DEF chainVars, issuerVars, acquirerVars
  <1>1. PaymentsKept
    BY StoreStep, DecisionsKept
  <1>2. ASSUME NEW o \in Orders, Edit(o) PROVE PageInv'
    BY <1>2, PageStep DEF Edit, PageInv, FetchInv
  <1>3. CASE Reload
    BY <1>3, PageStep, StoreAssumption DEF Reload, NoFetch, Nothing, PageInv, FetchInv
  <1>4. ASSUME NEW k \in PaymentIds, Submit(k) PROVE PageInv'
    BY <1>4, PageStep, StoreAssumption DEF Submit, NoFetch, Nothing, PageInv, FetchInv
  <1>5. CASE ShowFailure
    BY <1>5, PageStep DEF ShowFailure, NoFetch, PageInv, FetchInv
  <1>6. CASE ShowResult
    BY <1>6, PageStep, StoreAssumption DEF ShowResult, NoFetch, PageInv, FetchInv
  <1>7. CASE Relay \/ Fail
    BY <1>7, ReplyStep
  <1>8. ASSUME NEW h \in Handlers,
               Checkout(h) \/ Acquirer(h) \/ \E r \in OtherPosts : OtherPost(h, r)
        PROVE  PageInv'
    BY <1>1, <1>8, ArrivalStep, AcquirerStep
  <1>9. ASSUME NEW s \in Sessions, Serve(s), UNCHANGED pageVars PROVE PageInv'
    BY <1>1, <1>9, UnnoticedStep DEF Serve, pageVars
  <1>10. CASE UNCHANGED vars
    BY <1>1, <1>10, UnnoticedStep DEF vars, pageVars
  <1> QED
    BY <1>2, <1>3, <1>4, <1>5, <1>6, <1>7, <1>8, <1>9, <1>10 DEF Next

-----------------------------------------------------------------------------
(* The keys *)

\* A key is dropped only with the purchase it was drawn for.
LEMMA NextKeysInv ==
    ASSUME KeysInv, [Next]_vars
    PROVE  KeysInv'
  <1>1. CASE UNCHANGED <<retryKey, drawn, earlier>>
    BY <1>1 DEF KeysInv
  <1>2. CASE retryKey' = NoKey /\ AnotherPurchase
    BY <1>2 DEF KeysInv, AnotherPurchase
  <1>3. ASSUME NEW k \in PaymentIds, Submit(k) PROVE KeysInv'
    BY <1>3, StoreAssumption DEF KeysInv, Submit
  <1> QED
    BY <1>1, <1>2, <1>3
    DEF Next, Edit, Reload, ShowFailure, ShowResult, Relay, Fail, Checkout, Acquirer, OtherPost,
        pageVars, vars

\* Of one key, one payment is charged at most.
LEMMA OneKeyOneCharge == KeysInv => RepeatedSubmitsChargeOnce
  <1> SUFFICES ASSUME KeysInv, NEW keys \in earlier \cup {drawn}
               PROVE  Cardinality({k \in keys : Charged(k)}) <= 1
    BY DEF RepeatedSubmitsChargeOnce
  <1> DEFINE charged == {k \in keys : Charged(k)}
  <1>1. PICK k : keys \subseteq {k}
    BY DEF KeysInv
  <1>2. CASE charged = {}
    BY <1>2, FS_EmptySet
  <1>3. CASE charged # {}
    <2>1. charged = {k}
      BY <1>1, <1>3
    <2>2. Cardinality({k}) = 1
      BY FS_Singleton
    <2>3. Cardinality(charged) = 1
      BY <2>1, <2>2
    <2> QED
      BY <2>3
  <1> QED
    BY <1>2, <1>3

-----------------------------------------------------------------------------
\* The shop takes no step that the acquirer does not allow, and the invariants
\* of both hold throughout.
THEOREM CheckoutInvariant == Spec => [](IInv /\ PageInv /\ KeysInv)
  <1>1. Init => IInv /\ PageInv /\ KeysInv
    BY InitIInv, InitPageInv DEF Init
  <1>2. IInv /\ PageInv /\ KeysInv /\ [Next]_vars => (IInv /\ PageInv /\ KeysInv)'
    BY StoreStep, NextIInv, NextPageInv, NextKeysInv
  <1> QED
    BY <1>1, <1>2, PTL DEF Spec

\* With its page, its store and the other clients, the shop only does what any
\* clients of the acquirer may do (main.go:286-341), so what is proved of the
\* acquirer, and of the issuer's promise, holds behind them.
THEOREM ShopUsesAcquirer == Spec => AcquirerSpec
  <1>1. Init => AcquirerInit
    BY DEF Init
  <1>2. PageInv /\ [Next]_vars => [AcquirerNext]_chainVars
    BY StoreStep
  <1> QED
    BY <1>1, <1>2, CheckoutInvariant, PTL DEF Spec, AcquirerSpec

\* For every set of payments, handlers and sessions, and whatever is lost or
\* given up, what the page shows is what the issuer decided for the order the
\* shopper sent (main.go:286-341, app.js:144-157).
THEOREM PageIsTruthful == Spec => []PageTellsTheTruth
  <1>1. PageInv => PageTellsTheTruth
    BY DEF PageInv, ShownInv, Ruled, PageTellsTheTruth
  <1> QED
    BY <1>1, CheckoutInvariant, PTL

\* However often the shopper repeats a submit, one payment is charged at most
\* (app.js:111, 136-142, 161-163; README-banking.md:85-86).
THEOREM RepetitionIsSafe == Spec => []RepeatedSubmitsChargeOnce
  BY CheckoutInvariant, OneKeyOneCharge, PTL
=============================================================================
