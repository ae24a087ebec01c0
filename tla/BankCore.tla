------------------------------ MODULE BankCore ------------------------------
(***************************************************************************)
(* account-service as one program: the transactions of AccountService and  *)
(* of CardService run side by side on the same accounts rows and the same  *)
(* ledger.  Each service has its own sessions; T and C name its actions.   *)
(***************************************************************************)
EXTENDS AccountStore, FiniteSets, FiniteSetsExt

CONSTANTS
    TransferSessions, CardSessions,
    TransferIds, ReversalIds, NoId, Transfers,
    PaymentIds, Payments, CreditLimit

ASSUME SessionsAssumption ==
    /\ Sessions = TransferSessions \cup CardSessions
    /\ TransferSessions \cap CardSessions = {}

\* Accounts and ids are UUIDs, of which there are finitely many.  The clients
\* draw the ids at random (banking-web/src/api.ts:67, store-service-go/static/
\* app.js:111), so that no transfer has the id of a card payment.
ASSUME IdsAssumption ==
    /\ IsFiniteSet(Accounts) /\ IsFiniteSet(PaymentIds)
    /\ PaymentIds \cap (TransferIds \cup ReversalIds) = {}

VARIABLES
    transfers, pc, key, draft, entity, found, reply, overlapped,
    cards, lines, used, payments, payLock, cardLock, lineLock,
    at, job, decision, loaded, answer

transferVars == <<transfers, pc, key, draft, entity, found, reply, overlapped>>
cardVars == <<cards, lines, used, payments, payLock, cardLock, lineLock,
              at, job, decision, loaded, answer>>

T == INSTANCE AccountService WITH Sessions <- TransferSessions
C == INSTANCE CardService WITH Sessions <- CardSessions

\* What each service assumes of the requests it may get.
ASSUME RequestsAssumption ==
    /\ TransferIds \cap ReversalIds = {}
    /\ T!KeyIds \cup PaymentIds \subseteq Journals
    /\ NoId \notin T!KeyIds
    /\ Transfers \subseteq T!TransferRequest
    /\ Payments \subseteq C!PaymentRequest
    /\ CreditLimit \in Nat

vars == <<storeVars, transferVars, cardVars>>

Init == StoreInit /\ T!ServiceInit /\ C!CardInit

\* One action of one service; the other service's variables stay.
Next ==
    \/ T!Next /\ UNCHANGED cardVars
    \/ C!Next /\ UNCHANGED transferVars

Spec == Init /\ [][Next]_vars

-----------------------------------------------------------------------------
\* Money is neither made nor lost: what left the accounts was paid to the
\* acquirer by captured debit payments.  V3:1-30, CardService.java:138-141.
MoneyIsConserved ==
    MapThenSumSet(LAMBDA a : OpeningBalance[a], Accounts)
        = MapThenSumSet(LAMBDA a : balance[a], Accounts)
          + MapThenSumSet(LAMBDA p : moved[p], PaymentIds)

\* Session t holds lock x of a kind of locks.
Holds(t, lock, x) == x \in DOMAIN lock /\ lock[x] = t

\* The next statement of s needs a lock that t holds.
TransferAwaits(s, t) ==
    \/ pc[s] = "lockFirst" /\ Holds(t, rowLock, T!FirstId(draft[s]))
    \/ pc[s] = "lockSecond" /\ Holds(t, rowLock, T!SecondId(draft[s]))

CardAwaits(s, t) ==
    \/ at[s] = "advisory" /\ Holds(t, payLock, job[s].id)
    \/ at[s] = "lockCard" /\ Holds(t, cardLock, job[s].card)
    \/ at[s] \in {"lockAccount", "lockOwner"} /\ Holds(t, rowLock, C!Owner(job[s]))
    \/ at[s] = "lockLine" /\ Holds(t, lineLock, C!Owner(job[s]))

Awaits(s, t) ==
    \/ s \in TransferSessions /\ TransferAwaits(s, t)
    \/ s \in CardSessions /\ CardAwaits(s, t)

Served(t) ==
    \/ t \in TransferSessions /\ T!Serving(t)
    \/ t \in CardSessions /\ C!Busy(t)

\* Whatever the transactions of both services hold, every chain of waits ends at
\* one that runs: who is waited for is being served, so it holds no lock left
\* from an earlier request, and of any sessions one waits for none of the others.
\* Advisory lock, card, accounts in id order, credit line is an order every
\* transaction respects.
\* AccountService.java:105-108, 137-140, CardService.java:41, 89, 110, 121, 143.
WaitsEnd ==
    /\ \A s, t \in Sessions : Awaits(s, t) => Served(t)
    /\ \A D \in (SUBSET Sessions) \ {{}} : \E s \in D : \A t \in D : ~ Awaits(s, t)

=============================================================================
