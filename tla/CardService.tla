----------------------------- MODULE CardService -----------------------------
(***************************************************************************)
(* CardService.java: the issuer.  issue (lines 39-61) creates an account's *)
(* virtual card and credit line; authorizeAndCapture (lines 87-164) decides *)
(* a card payment under an advisory lock on its id and the row locks of    *)
(* the card, the account and the credit line, in that order.               *)
(*                                                                         *)
(* A card is named by its account and type, which uq_cards_account_type_   *)
(* factor makes a key.  No code changes a card's status from ACTIVE, so    *)
(* the CARD_INACTIVE branch has no counterpart.                            *)
(***************************************************************************)
EXTENDS AccountStore, FiniteSetsExt

CONSTANTS
    PaymentIds,      \* paymentIds
    Payments,        \* the card payment requests the acquirer may send
    CreditLimit      \* CREDIT_LIMIT

Types == {"DEBIT", "CREDIT"}
CardKeys == Accounts \X Types

\* What can be wrong with a request besides its card and its amount.
Flaws == {"currency", "installments", "pan", "holder", "expiry", "cvv"}

\* text stands for the fields only the fingerprint looks at: merchant, order
\* reference, and how the amount is spelled.
PaymentRequest ==
    [id : PaymentIds, card : CardKeys, type : Types, amount : Nat \ {0},
     flaws : SUBSET Flaws, text : Nat]

ASSUME CardAssumption ==
    /\ PaymentIds \subseteq Journals
    /\ Payments \subseteq PaymentRequest
    /\ CreditLimit \in Nat

Decisions == {"CAPTURED", "UNSUPPORTED_CURRENCY", "INVALID_INSTALLMENTS",
              "INVALID_CARD", "PAYMENT_TYPE_MISMATCH", "CARDHOLDER_MISMATCH",
              "EXPIRED_CARD", "INVALID_SECURITY_CODE", "INSUFFICIENT_FUNDS",
              "CREDIT_LIMIT_EXCEEDED"}

VARIABLES
    cards,       \* the issued cards
    lines,       \* the accounts with a credit line
    used,        \* card_credit_lines.used_amount
    payments,    \* card_payments: the request and the decision of each id
    payLock,     \* pg_advisory_xact_lock on a payment id
    cardLock,    \* FOR UPDATE locks of cards
    lineLock,    \* FOR UPDATE locks of credit lines
    at,          \* the next statement of each session
    job,         \* the request it serves
    decision,    \* what authorizeAndCapture has decided
    loaded,      \* the balance, or the used amount, it has computed
    answer       \* the answer to its request

cardVars == <<cards, lines, used, payments, payLock, cardLock, lineLock,
              at, job, decision, loaded, answer>>
vars == <<storeVars, cardVars>>

None == "NONE"
NoJob == [card |-> <<>>]
IssueRequest == [card : CardKeys]
NoPayment == [request |-> NoJob, decision |-> None]
PaymentSteps == {"advisory", "findPayment", "lockCard", "lockAccount", "lockLine", "commit"}
IssueSteps == {"lockOwner", "findCard", "saveCard"}
Busy(s) == at[s] \in PaymentSteps \cup IssueSteps

\* Every variable has its type; no credit line is used beyond its limit.
TypeOK ==
    /\ StoreTypeOK
    /\ cards \subseteq CardKeys
    /\ lines \subseteq Accounts
    /\ used \in [Accounts -> 0 .. CreditLimit]
    /\ payments \in [PaymentIds -> [request : Payments, decision : Decisions] \cup {NoPayment}]
    /\ payLock \in [PaymentIds -> Sessions \cup {NoSession}]
    /\ cardLock \in [CardKeys -> Sessions \cup {NoSession}]
    /\ lineLock \in [Accounts -> Sessions \cup {NoSession}]
    /\ at \in [Sessions -> PaymentSteps \cup IssueSteps \cup {"idle", "done"}]
    /\ job \in [Sessions -> Payments \cup IssueRequest \cup {NoJob}]
    /\ \A s \in Sessions :
          job[s] \in CASE at[s] \in PaymentSteps -> Payments
                       [] at[s] \in IssueSteps -> IssueRequest
                       [] OTHER -> Payments \cup IssueRequest \cup {NoJob}
    /\ decision \in [Sessions -> Decisions \cup {None}]
    /\ loaded \in [Sessions -> Nat]
    /\ answer \in [Sessions -> Decisions \cup {None, "CONFLICT", "ISSUED", "ERROR"}]

CardInit ==
    /\ cards = {} /\ lines = {}
    /\ payments = [p \in PaymentIds |-> NoPayment]
    /\ used = [a \in Accounts |-> 0]
    /\ payLock = [p \in PaymentIds |-> NoSession]
    /\ cardLock = [c \in CardKeys |-> NoSession]
    /\ lineLock = [a \in Accounts |-> NoSession]
    /\ at = [s \in Sessions |-> "idle"]
    /\ job = [s \in Sessions |-> NoJob]
    /\ decision = [s \in Sessions |-> None]
    /\ loaded = [s \in Sessions |-> 0]
    /\ answer = [s \in Sessions |-> None]

Init == StoreInit /\ CardInit

-----------------------------------------------------------------------------
(* Helpers *)

GoTo(s, statement) == at' = [at EXCEPT ![s] = statement]

FreedBy(s, lock) ==
    [x \in DOMAIN lock |-> IF lock[x] = s THEN NoSession ELSE lock[x]]

\* The transaction ends: every lock it took is released, the advisory one too.
Finish(s, a) ==
    /\ ReleaseRows(s)
    /\ payLock' = FreedBy(s, payLock)
    /\ cardLock' = FreedBy(s, cardLock)
    /\ lineLock' = FreedBy(s, lineLock)
    /\ GoTo(s, "done")
    /\ answer' = [answer EXCEPT ![s] = a]
    /\ decision' = [decision EXCEPT ![s] = None]
    /\ loaded' = [loaded EXCEPT ![s] = 0]
    /\ UNCHANGED job

Rollback(s, a) ==
    /\ Finish(s, a)
    /\ UNCHANGED <<balance, ledgerOf, moved, cards, lines, used, payments>>

\* The request is decided; what is left is to flush and commit.
Decide(s, d, n) ==
    /\ GoTo(s, "commit")
    /\ decision' = [decision EXCEPT ![s] = d]
    /\ loaded' = [loaded EXCEPT ![s] = n]

\* The rows, locks and sessions a statement of a payment leaves alone.
Keep == UNCHANGED <<balance, ledgerOf, moved, cards, lines, used, payments, job, answer>>

Owner(r) == r.card[1]

Decided(p) == payments[p] # NoPayment

-----------------------------------------------------------------------------
(* authorizeAndCapture *)

\* POST /internal/v1/card-payments reaches a session.
ReceivePayment(s, r) ==
    /\ at[s] = "idle"
    /\ GoTo(s, "advisory")
    /\ job' = [job EXCEPT ![s] = r]
    /\ UNCHANGED <<storeVars, cards, lines, used, payments, payLock, cardLock, lineLock,
                   decision, loaded, answer>>

\* Fault: the payment id is not locked.
AcquireNothing(s) ==
    /\ at[s] = "advisory"
    /\ GoTo(s, "findPayment")
    /\ Keep
    /\ UNCHANGED <<rowLock, payLock, cardLock, lineLock, decision, loaded>>

\* payments.acquirePaymentLock
AcquirePaymentLock(s) ==
    /\ at[s] = "advisory"
    /\ payLock[job[s].id] = NoSession
    /\ payLock' = [payLock EXCEPT ![job[s].id] = s]
    /\ GoTo(s, "findPayment")
    /\ Keep
    /\ UNCHANGED <<rowLock, cardLock, lineLock, decision, loaded>>

\* What is refused before any row is read.
EarlyDecline(r) ==
    IF "currency" \in r.flaws THEN "UNSUPPORTED_CURRENCY"
    ELSE IF r.type = "DEBIT" /\ "installments" \in r.flaws THEN "INVALID_INSTALLMENTS"
    ELSE IF "pan" \in r.flaws THEN "INVALID_CARD"
    ELSE None

\* payments.findById, the comparison of fingerprints and the first refusals.
FindPayment(s) ==
    LET r == job[s]
        existing == payments[r.id]
    IN /\ at[s] = "findPayment"
       /\ \/ Decided(r.id) /\ existing.request = r /\ Rollback(s, existing.decision)
          \/ Decided(r.id) /\ existing.request # r /\ Rollback(s, "CONFLICT")
          \/ /\ ~Decided(r.id) /\ EarlyDecline(r) # None
             /\ Decide(s, EarlyDecline(r), 0)
             /\ Keep
             /\ UNCHANGED <<rowLock, payLock, cardLock, lineLock>>
          \/ /\ ~Decided(r.id) /\ EarlyDecline(r) = None
             /\ GoTo(s, "lockCard")
             /\ Keep
             /\ UNCHANGED <<rowLock, payLock, cardLock, lineLock, decision, loaded>>

\* cards.findByPanFingerprintForUpdate
LockCard(s) ==
    LET r == job[s]
    IN /\ at[s] = "lockCard"
       /\ \/ /\ r.card \notin cards
             /\ Decide(s, "INVALID_CARD", 0)
             /\ UNCHANGED cardLock
          \/ /\ r.card \in cards
             /\ cardLock[r.card] = NoSession
             /\ cardLock' = [cardLock EXCEPT ![r.card] = s]
             /\ \/ r.card[2] # r.type /\ Decide(s, "PAYMENT_TYPE_MISMATCH", 0)
                \/ /\ r.card[2] = r.type /\ GoTo(s, "lockAccount")
                   /\ UNCHANGED <<decision, loaded>>
       /\ Keep
       /\ UNCHANGED <<rowLock, payLock, lineLock>>

\* Fault: the security code is not compared.
HolderDeclineWithoutCvv(r) ==
    IF "holder" \in r.flaws THEN "CARDHOLDER_MISMATCH"
    ELSE IF "expiry" \in r.flaws THEN "EXPIRED_CARD"
    ELSE None

\* What is refused once the card's holder is known.
HolderDecline(r) ==
    IF "holder" \in r.flaws THEN "CARDHOLDER_MISMATCH"
    ELSE IF "expiry" \in r.flaws THEN "EXPIRED_CARD"
    ELSE IF "cvv" \in r.flaws THEN "INVALID_SECURITY_CODE"
    ELSE None

\* accounts.findByIdForUpdate, the checks of the card's data and account.debit.
LockAccount(s) ==
    LET r == job[s]
        funds == balance[Owner(r)]
    IN /\ at[s] = "lockAccount"
       /\ LockRow(s, Owner(r))
       /\ \/ HolderDecline(r) # None /\ Decide(s, HolderDecline(r), 0)
          \/ /\ HolderDecline(r) = None /\ r.type = "DEBIT" /\ funds < r.amount
             /\ Decide(s, "INSUFFICIENT_FUNDS", 0)
          \/ /\ HolderDecline(r) = None /\ r.type = "DEBIT" /\ funds >= r.amount
             /\ Decide(s, "CAPTURED", funds - r.amount)
          \/ /\ HolderDecline(r) = None /\ r.type = "CREDIT"
             /\ GoTo(s, "lockLine")
             /\ UNCHANGED <<decision, loaded>>
       /\ Keep
       /\ UNCHANGED <<payLock, cardLock, lineLock>>

\* Fault: canUse is not asked.
LockLineUnchecked(s) ==
    /\ at[s] = "lockLine"
    /\ Owner(job[s]) \in lines
    /\ lineLock[Owner(job[s])] = NoSession
    /\ lineLock' = [lineLock EXCEPT ![Owner(job[s])] = s]
    /\ Decide(s, "CAPTURED", used[Owner(job[s])] + job[s].amount)
    /\ Keep
    /\ UNCHANGED <<rowLock, payLock, cardLock>>

\* creditLines.findByIdForUpdate, canUse and use.  A missing line would throw,
\* but the first credit card of an account creates it (SaveCard).
LockLine(s) ==
    LET r == job[s]
        a == Owner(r)
    IN /\ at[s] = "lockLine"
       /\ a \in lines
       /\ lineLock[a] = NoSession
       /\ lineLock' = [lineLock EXCEPT ![a] = s]
       /\ \/ CreditLimit - used[a] < r.amount /\ Decide(s, "CREDIT_LIMIT_EXCEEDED", 0)
          \/ CreditLimit - used[a] >= r.amount /\ Decide(s, "CAPTURED", used[a] + r.amount)
       /\ Keep
       /\ UNCHANGED <<rowLock, payLock, cardLock>>

\* Fault: a debit purchase posts no ledger entries.
CommitPaymentWithoutEntries(s) ==
    LET r == job[s]
    IN /\ at[s] = "commit"
       /\ payments' = [payments EXCEPT ![r.id] = [request |-> r, decision |-> decision[s]]]
       /\ \/ /\ decision[s] = "CAPTURED" /\ r.type = "DEBIT"
             /\ WriteBalances({Owner(r)}, [balance EXCEPT ![Owner(r)] = loaded[s]])
          \/ decision[s] # "CAPTURED" /\ UNCHANGED balance
       /\ Finish(s, decision[s])
       /\ UNCHANGED <<ledgerOf, moved, cards, lines, used>>

\* payments.save, the flush of the debited account or the used line with the
\* ledger entries of a debit purchase, and the COMMIT.
CommitPayment(s) ==
    LET r == job[s]
        a == Owner(r)
    IN /\ at[s] = "commit"
       /\ payments' = [payments EXCEPT ![r.id] = [request |-> r, decision |-> decision[s]]]
       /\ \/ /\ decision[s] = "CAPTURED" /\ r.type = "DEBIT"
             /\ WriteBalances({a}, [balance EXCEPT ![a] = loaded[s]])
             /\ PostEntries(r.id, a, System, r.amount)
             /\ UNCHANGED used
          \/ /\ decision[s] = "CAPTURED" /\ r.type = "CREDIT"
             /\ used' = [used EXCEPT ![a] = loaded[s]]
             /\ UNCHANGED <<balance, ledgerOf, moved>>
          \/ /\ decision[s] # "CAPTURED"
             /\ UNCHANGED <<balance, ledgerOf, moved, used>>
       /\ Finish(s, decision[s])
       /\ UNCHANGED <<cards, lines>>

-----------------------------------------------------------------------------
(* issue *)

\* POST /accounts/me/cards, after the password was confirmed.
ReceiveIssue(s, c) ==
    /\ at[s] = "idle"
    /\ GoTo(s, "lockOwner")
    /\ job' = [job EXCEPT ![s] = [card |-> c]]
    /\ UNCHANGED <<storeVars, cards, lines, used, payments, payLock, cardLock, lineLock,
                   decision, loaded, answer>>

LockOwner(s) ==
    /\ at[s] = "lockOwner"
    /\ LockRow(s, Owner(job[s]))
    /\ GoTo(s, "findCard")
    /\ Keep
    /\ UNCHANGED <<payLock, cardLock, lineLock, decision, loaded>>

\* The card exists, or one is drawn; five draws of a number in use give up.
FindCard(s) ==
    /\ at[s] = "findCard"
    /\ \/ /\ GoTo(s, "saveCard")
          /\ Keep
          /\ UNCHANGED <<rowLock, payLock, cardLock, lineLock, decision, loaded>>
       \/ job[s].card \notin cards /\ Rollback(s, "ERROR")

\* cards.save unless the card existed, ensureCreditLine, and the COMMIT.
SaveCard(s) ==
    /\ at[s] = "saveCard"
    /\ cards' = cards \cup {job[s].card}
    /\ lines' = IF job[s].card[2] = "CREDIT" THEN lines \cup {Owner(job[s])} ELSE lines
    /\ Finish(s, "ISSUED")
    /\ UNCHANGED <<balance, ledgerOf, moved, used, payments>>

-----------------------------------------------------------------------------
\* The process or the connection dies: PostgreSQL rolls back.
Crash(s) == Busy(s) /\ Rollback(s, "ERROR")

\* The answer leaves and the session is free for the next request.
Return(s) ==
    /\ at[s] = "done"
    /\ GoTo(s, "idle")
    /\ job' = [job EXCEPT ![s] = NoJob]
    /\ answer' = [answer EXCEPT ![s] = None]
    /\ UNCHANGED <<storeVars, cards, lines, used, payments, payLock, cardLock, lineLock,
                   decision, loaded>>

Receive(s) ==
    \/ \E r \in Payments : ReceivePayment(s, r)
    \/ \E c \in CardKeys : ReceiveIssue(s, c)

WaitStep(s) ==
    AcquirePaymentLock(s) \/ LockCard(s) \/ LockAccount(s) \/ LockLine(s) \/ LockOwner(s)

Step(s) ==
    WaitStep(s) \/ FindPayment(s) \/ CommitPayment(s) \/ FindCard(s) \/ SaveCard(s)

Next == \E s \in Sessions : Receive(s) \/ Step(s) \/ Crash(s) \/ Return(s)

Spec == Init /\ [][Next]_vars

-----------------------------------------------------------------------------
(* Properties *)

\* The credit payments an account's line paid.
CreditTaken(a) ==
    {p \in PaymentIds : /\ payments[p].decision = "CAPTURED"
                        /\ payments[p].request.type = "CREDIT"
                        /\ Owner(payments[p].request) = a}

\* A captured debit payment has moved its amount, no other payment has moved any.
DebitTakenOnce ==
    \A p \in PaymentIds :
        moved[p] = IF payments[p].decision = "CAPTURED"
                      /\ payments[p].request.type = "DEBIT"
                   THEN payments[p].request.amount ELSE 0

\* Over retries, conflicts and crashes, a captured payment takes its amount
\* exactly once, from the account (DEBIT) or from the credit line (CREDIT), and
\* a payment that is not captured takes nothing.  CardService.java:89-98, 133-153.
CapturedOnce ==
    /\ DebitTakenOnce
    /\ \A a \in Accounts :
          used[a] = MapThenSumSet(LAMBDA p : payments[p].request.amount, CreditTaken(a))

\* What the callers of the issuer see of a session: its payments only.
IssuerCall(s) ==
    IF at[s] \in PaymentSteps THEN [state |-> "asked", request |-> job[s]]
    ELSE IF at[s] = "done" /\ "id" \in DOMAIN job[s]
    THEN [state |-> "told", answer |-> answer[s]]
    ELSE [state |-> "free"]

Issuer ==
    INSTANCE CardIssuer WITH Outcomes <- Decisions, calls <- [s \in Sessions |-> IssuerCall(s)]

\* Statement by statement, with crashes and with issues in between, the issuer
\* keeps its promise: one decision per payment id, taken once, never replaced,
\* and told to whoever repeats the request it was taken for and to nobody else.
\* CardService.java:87-98, 151-164.
ImplementsIssuer == Issuer!IssuerSpec

\* A payment that is wrong in any way the issuer checks takes no money, and a
\* debit card never spends the credit line.  CardService.java:100-131.
FlawedIsNotCaptured ==
    \A p \in PaymentIds :
        payments[p].decision = "CAPTURED" =>
            LET r == payments[p].request
            IN /\ r.flaws \subseteq (IF r.type = "CREDIT" THEN {"installments"} ELSE {})
               /\ r.card[2] = r.type
               /\ r.card \in cards

=============================================================================
