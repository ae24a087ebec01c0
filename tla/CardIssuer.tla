----------------------------- MODULE CardIssuer -----------------------------
(***************************************************************************)
(* What POST /internal/v1/card-payments promises its callers: a payment id *)
(* is decided once, for one request; that request is answered with the     *)
(* decision from then on, any other with a conflict, and an attempt that   *)
(* fails decides nothing.  CardService implements it (ImplementsIssuer)    *)
(* and AcquirerService is built on it.                                     *)
(***************************************************************************)
EXTENDS FiniteSets

CONSTANTS
    Sessions,    \* the calls the issuer can serve at a time
    PaymentIds,
    Payments,    \* the requests, records with an id
    Outcomes,    \* CAPTURED and the decline codes
    NoPayment    \* the row of a payment that is not decided

VARIABLES
    payments,    \* the request and the decision of each id
    calls        \* the call each session serves and its answer

issuerVars == <<payments, calls>>

Free == [state |-> "free"]
Asked(r) == [state |-> "asked", request |-> r]
Told(a) == [state |-> "told", answer |-> a]
Charged(p) == payments[p] # NoPayment /\ payments[p].decision = "CAPTURED"

IssuerTypeOK ==
    /\ payments \in [PaymentIds -> [request : Payments, decision : Outcomes] \cup {NoPayment}]
    /\ calls \in [Sessions -> {Free} \cup {Asked(r) : r \in Payments}
                               \cup {Told(a) : a \in Outcomes \cup {"CONFLICT", "ERROR"}}]

IssuerInit ==
    /\ payments = [p \in PaymentIds |-> NoPayment]
    /\ calls = [s \in Sessions |-> Free]

Answer(s, a) == calls' = [calls EXCEPT ![s] = Told(a)]

Ask(s, r) ==
    /\ calls[s] = Free
    /\ calls' = [calls EXCEPT ![s] = Asked(r)]
    /\ UNCHANGED payments

Authorize(s, d) ==
    /\ calls[s].state = "asked"
    /\ payments[calls[s].request.id] = NoPayment
    /\ payments' = [payments EXCEPT ![calls[s].request.id] =
                       [request |-> calls[s].request, decision |-> d]]
    /\ Answer(s, d)

\* The payment is decided already.
Repeat(s) ==
    /\ calls[s].state = "asked"
    /\ LET stored == payments[calls[s].request.id]
       IN /\ stored # NoPayment
          /\ \/ stored.request = calls[s].request /\ Answer(s, stored.decision)
             \/ stored.request # calls[s].request /\ Answer(s, "CONFLICT")
    /\ UNCHANGED payments

\* A rollback, or a call that never arrives.
Break(s) ==
    /\ calls[s].state = "asked"
    /\ Answer(s, "ERROR")
    /\ UNCHANGED payments

Forget(s) ==
    /\ calls[s].state = "told"
    /\ calls' = [calls EXCEPT ![s] = Free]
    /\ UNCHANGED payments

Decide(s) == Repeat(s) \/ \E d \in Outcomes : Authorize(s, d)

IssuerNext ==
    \E s \in Sessions :
        \/ \E r \in Payments : Ask(s, r)
        \/ Decide(s) \/ Break(s) \/ Forget(s)

IssuerSpec == IssuerInit /\ [][IssuerNext]_issuerVars
=============================================================================
