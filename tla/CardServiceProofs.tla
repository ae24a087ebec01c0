-------------------------- MODULE CardServiceProofs --------------------------
(***************************************************************************)
(* The issuer, for every set of accounts, sessions, payments and requests, *)
(* and every limit: types and limits are kept, the ledger agrees with the  *)
(* balances, no flawed payment is captured, and CardIssuer is implemented. *)
(***************************************************************************)
EXTENDS CardService, FiniteSums

\* The payment id of a session that works on it is locked by the session.
Paying == PaymentSteps \ {"advisory"}

\* From here on the payment is known to be undecided.
Deciding == Paying \ {"findPayment"}

PayInv(s) ==
    /\ at[s] \in Paying => payLock[job[s].id] = s
    /\ at[s] \in Deciding => payments[job[s].id] = NoPayment

\* What the statements before have found in order.
CheckInv(s) ==
    LET r == job[s]
    IN /\ at[s] \in {"lockCard", "lockAccount", "lockLine"} => EarlyDecline(r) = None
       /\ at[s] \in {"lockAccount", "lockLine"} => r.card \in cards /\ r.card[2] = r.type
       /\ at[s] = "lockLine" => HolderDecline(r) = None /\ r.type = "CREDIT"

\* What a session is about to commit.
CaptureInv(s) ==
    LET r == job[s]
    IN /\ at[s] = "commit" => decision[s] \in Decisions
       /\ at[s] = "commit" /\ decision[s] = "CAPTURED" =>
             /\ EarlyDecline(r) = None /\ HolderDecline(r) = None
             /\ r.card \in cards /\ r.card[2] = r.type
             /\ r.type = "DEBIT" =>
                   /\ rowLock[Owner(r)] = s
                   /\ loaded[s] = balance[Owner(r)] - r.amount
             /\ r.type = "CREDIT" => loaded[s] \in 0 .. CreditLimit

SessionInv(s) == PayInv(s) /\ CheckInv(s) /\ CaptureInv(s)

IInv ==
    /\ TypeOK
    /\ \A s \in Sessions : SessionInv(s)
    /\ NoDivergentAccount
    /\ DebitTakenOnce
    /\ FlawedIsNotCaptured

-----------------------------------------------------------------------------
\* What a request and the account it draws from are.
LEMMA RequestTypes ==
    ASSUME NEW r \in Payments
    PROVE  /\ r.id \in PaymentIds /\ r.id \in Journals
           /\ r.card \in CardKeys /\ Owner(r) \in Accounts /\ Owner(r) # System
           /\ r.type \in Types /\ r.amount \in Nat /\ r.amount > 0
           /\ r.flaws \subseteq Flaws
  <1>1. r \in PaymentRequest
    BY CardAssumption
  <1>2. r.card \in Accounts \X Types
    BY <1>1 DEF PaymentRequest, CardKeys
  <1>3. Owner(r) \in Accounts /\ Owner(r) # System
    BY <1>2, StoreAssumption DEF Owner, System
  <1> QED
    BY <1>1, <1>3, CardAssumption DEF PaymentRequest

\* No row of a payment that is decided looks like that of one that is not.
LEMMA DecisionsAreNotNone == None \notin Decisions
  BY DEF None, Decisions

\* Nothing is issued, decided or under way at first.
LEMMA InitIInv == Init => IInv
  <1> SUFFICES ASSUME Init PROVE IInv
    OBVIOUS
  <1> USE DEF Init, StoreInit, CardInit
  <1>1. StoreTypeOK /\ NoDivergentAccount
    BY StoreAssumption DEF StoreTypeOK, NoDivergentAccount, System
  <1>2. TypeOK
    BY <1>1, CardAssumption DEF TypeOK, PaymentSteps, IssueSteps
  <1>3. \A s \in Sessions : SessionInv(s)
    BY DEF SessionInv, PayInv, CheckInv, CaptureInv, Paying, Deciding, PaymentSteps
  <1>4. DebitTakenOnce /\ FlawedIsNotCaptured
    BY CardAssumption DEF DebitTakenOnce, FlawedIsNotCaptured, NoPayment, None
  <1> QED
    BY <1>1, <1>2, <1>3, <1>4 DEF IInv

-----------------------------------------------------------------------------
(* Sessions do not disturb each other *)

\* A step of session s writes only rows that no other session has locked.
Spares(s) ==
    /\ \A t \in Sessions \ {s} :
          /\ at'[t] = at[t] /\ job'[t] = job[t]
          /\ decision'[t] = decision[t] /\ loaded'[t] = loaded[t]
    /\ \A p \in PaymentIds :
          payLock[p] \in Sessions \ {s} => payLock'[p] = payLock[p] /\ payments'[p] = payments[p]
    /\ \A a \in Accounts :
          rowLock[a] \in Sessions \ {s} => rowLock'[a] = rowLock[a] /\ balance'[a] = balance[a]
    /\ cards \subseteq cards'

\* What a session serves has the type that its next statement says.
LEMMA JobTypes ==
    ASSUME TypeOK, NEW t \in Sessions
    PROVE  /\ at[t] \in PaymentSteps => job[t] \in Payments
           /\ at[t] \in IssueSteps => job[t] \in IssueRequest /\ job[t].card \in CardKeys
  <1>1. at[t] \in PaymentSteps => job[t] \in Payments
    <2> SUFFICES ASSUME at[t] \in PaymentSteps PROVE job[t] \in Payments
      OBVIOUS
    <2>1. at[t] \notin IssueSteps
      BY DEF IssueSteps, PaymentSteps
    <2> QED
      BY <2>1 DEF TypeOK
  <1>2. at[t] \in IssueSteps => job[t] \in IssueRequest
    <2> SUFFICES ASSUME at[t] \in IssueSteps PROVE job[t] \in IssueRequest
      OBVIOUS
    <2>1. at[t] \notin PaymentSteps
      BY DEF IssueSteps, PaymentSteps
    <2> QED
      BY <2>1 DEF TypeOK
  <1> QED
    BY <1>1, <1>2 DEF IssueRequest

LEMMA SparedSession ==
    ASSUME IInv, NEW s \in Sessions, NEW t \in Sessions \ {s}, Spares(s)
    PROVE  SessionInv(t)'
  <1>1. CASE at[t] \in PaymentSteps
    <2>1. job[t] \in Payments
      BY <1>1, JobTypes DEF IInv
    <2>2. PICK r \in Payments : r = job[t]
      BY <2>1
    <2>3. job'[t] = r /\ at'[t] = at[t] /\ decision'[t] = decision[t] /\ loaded'[t] = loaded[t]
      BY <2>2 DEF Spares
    <2>4. r.id \in PaymentIds /\ Owner(r) \in Accounts /\ r.type \in Types
      BY RequestTypes
    <2>5. SessionInv(t)
      BY DEF IInv
    <2>6. PayInv(t)' /\ CheckInv(t)'
      BY <2>2, <2>3, <2>4, <2>5 DEF SessionInv, PayInv, CheckInv, Spares, Paying, Deciding, PaymentSteps
    <2>7. CaptureInv(t)'
      BY <2>2, <2>3, <2>4, <2>5 DEF SessionInv, CaptureInv, Spares
    <2> QED
      BY <2>6, <2>7 DEF SessionInv
  <1>2. CASE at[t] \notin PaymentSteps
    BY <1>2 DEF Spares, SessionInv, PayInv, CheckInv, CaptureInv, Paying, Deciding, PaymentSteps
  <1> QED
    BY <1>1, <1>2

\* A session that finishes gives its locks back and is about to do nothing.
LEMMA FinishedSession ==
    ASSUME TypeOK, NEW s \in Sessions, NEW a, Finish(s, a)
    PROVE  /\ SessionInv(s)'
           /\ \A t \in Sessions \ {s} :
                 /\ at'[t] = at[t] /\ job'[t] = job[t]
                 /\ decision'[t] = decision[t] /\ loaded'[t] = loaded[t]
           /\ \A p \in PaymentIds : payLock[p] \in Sessions \ {s} => payLock'[p] = payLock[p]
           /\ \A b \in Accounts : rowLock[b] \in Sessions \ {s} => rowLock'[b] = rowLock[b]
  <1> USE DEF Finish, TypeOK, StoreTypeOK
  <1>1. SessionInv(s)'
    BY DEF GoTo, SessionInv, PayInv, CheckInv, CaptureInv, Paying, Deciding, PaymentSteps
  <1>2. \A p \in PaymentIds : payLock[p] \in Sessions \ {s} => payLock'[p] = payLock[p]
    BY DEF FreedBy
  <1>3. \A b \in Accounts : rowLock[b] \in Sessions \ {s} => rowLock'[b] = rowLock[b]
    BY DEF ReleaseRows
  <1> QED
    BY <1>1, <1>2, <1>3 DEF GoTo

LEMMA FinishedTypes ==
    ASSUME TypeOK, NEW s \in Sessions, Busy(s),
           NEW a \in Decisions \cup {"CONFLICT", "ISSUED", "ERROR"}, Finish(s, a),
           balance' \in [Accounts -> Nat], ledgerOf' \in [Accounts \cup {System} -> Int],
           moved' \in [Journals -> Nat], cards' \subseteq CardKeys, lines' \subseteq Accounts,
           used' \in [Accounts -> 0 .. CreditLimit],
           payments' \in [PaymentIds -> [request : Payments, decision : Decisions] \cup {NoPayment}]
    PROVE  TypeOK'
  <1> USE DEF Finish, TypeOK
  <1>1. StoreTypeOK'
    BY DEF StoreTypeOK, ReleaseRows
  <1>2. /\ payLock' \in [PaymentIds -> Sessions \cup {NoSession}]
        /\ cardLock' \in [CardKeys -> Sessions \cup {NoSession}]
        /\ lineLock' \in [Accounts -> Sessions \cup {NoSession}]
    BY DEF FreedBy
  <1>3. \A t \in Sessions :
          job'[t] \in CASE at'[t] \in PaymentSteps -> Payments
                        [] at'[t] \in IssueSteps -> IssueRequest
                        [] OTHER -> Payments \cup IssueRequest \cup {NoJob}
    <2>1. at'[s] = "done" /\ job'[s] = job[s]
      BY DEF GoTo
    <2>2. job[s] \in Payments \cup IssueRequest
      BY DEF Busy
    <2>3. \A t \in Sessions \ {s} : at'[t] = at[t] /\ job'[t] = job[t]
      BY DEF GoTo
    <2> QED
      BY <2>1, <2>2, <2>3 DEF PaymentSteps, IssueSteps
  <1>4. at' \in [Sessions -> PaymentSteps \cup IssueSteps \cup {"idle", "done"}]
    BY DEF GoTo
  <1>5. decision' \in [Sessions -> Decisions \cup {None}] /\ loaded' \in [Sessions -> Nat]
        /\ answer' \in [Sessions -> Decisions \cup {None, "CONFLICT", "ISSUED", "ERROR"}]
    OBVIOUS
  <1> QED
    BY <1>1, <1>2, <1>3, <1>4, <1>5

-----------------------------------------------------------------------------
(* The statements that only lock and look *)

\* Enough to show of any step of session s.
LEMMA Carries ==
    ASSUME IInv, NEW s \in Sessions, TypeOK', Spares(s), SessionInv(s)',
           NoDivergentAccount', DebitTakenOnce', FlawedIsNotCaptured'
    PROVE  IInv'
  <1>1. \A t \in Sessions \ {s} : SessionInv(t)'
    BY SparedSession
  <1> QED
    BY <1>1 DEF IInv

\* The rows are as they were, so all that is said of rows alone still holds.
LEMMA RowsKept ==
    ASSUME IInv, UNCHANGED <<balance, ledgerOf, moved, payments>>, cards \subseteq cards'
    PROVE  NoDivergentAccount' /\ DebitTakenOnce' /\ FlawedIsNotCaptured'
  BY DEF IInv, NoDivergentAccount, DebitTakenOnce, FlawedIsNotCaptured

\* Session s goes from one statement of a payment to the next.
LEMMA MovesOn ==
    ASSUME IInv, NEW s \in Sessions, at[s] \in PaymentSteps, Keep,
           NEW step \in PaymentSteps, GoTo(s, step),
           NEW d \in Decisions \cup {None}, decision' = [decision EXCEPT ![s] = d],
           NEW n \in Nat, loaded' = [loaded EXCEPT ![s] = n],
           \A p \in PaymentIds : payLock[p] # NoSession => payLock'[p] = payLock[p],
           \A a \in Accounts : rowLock[a] # NoSession => rowLock'[a] = rowLock[a],
           rowLock' \in [Accounts -> Sessions \cup {NoSession}],
           payLock' \in [PaymentIds -> Sessions \cup {NoSession}],
           cardLock' \in [CardKeys -> Sessions \cup {NoSession}],
           lineLock' \in [Accounts -> Sessions \cup {NoSession}],
           SessionInv(s)'
    PROVE  IInv'
  <1>1. TypeOK
    BY DEF IInv
  <1>2. job[s] \in Payments
    BY <1>1, JobTypes
  <1>3. StoreTypeOK'
    BY <1>1 DEF TypeOK, StoreTypeOK, Keep
  <1>4. at' = [at EXCEPT ![s] = step] /\ at' \in [Sessions -> PaymentSteps \cup IssueSteps \cup {"idle", "done"}]
    BY <1>1 DEF TypeOK, GoTo
  <1>5. \A t \in Sessions :
          job'[t] \in CASE at'[t] \in PaymentSteps -> Payments
                        [] at'[t] \in IssueSteps -> IssueRequest
                        [] OTHER -> Payments \cup IssueRequest \cup {NoJob}
    <2>1. at'[s] = step /\ job' = job /\ \A t \in Sessions \ {s} : at'[t] = at[t]
      BY <1>1, <1>4 DEF TypeOK, Keep
    <2> QED
      BY <1>1, <1>2, <2>1 DEF TypeOK, PaymentSteps, IssueSteps
  <1>6. TypeOK'
    BY <1>1, <1>3, <1>4, <1>5 DEF TypeOK, Keep
  <1>7. Spares(s)
    BY <1>1, <1>4, StoreAssumption DEF TypeOK, Spares, Keep
  <1>8. NoDivergentAccount' /\ DebitTakenOnce' /\ FlawedIsNotCaptured'
    BY RowsKept DEF Keep
  <1> QED
    BY <1>6, <1>7, <1>8, Carries

\* pg_advisory_xact_lock.
LEMMA AcquireStep ==
    ASSUME IInv, NEW s \in Sessions, AcquirePaymentLock(s)
    PROVE  IInv'
  <1> USE DEF AcquirePaymentLock
  <1>1. TypeOK /\ at[s] \in PaymentSteps
    BY DEF IInv, PaymentSteps
  <1>2. PICK r \in Payments : r = job[s]
    BY <1>1, JobTypes
  <1> r.id \in PaymentIds
    BY RequestTypes
  <1>3. payLock' = [payLock EXCEPT ![r.id] = s] /\ payLock[r.id] = NoSession
    BY <1>2
  <1>4. at'[s] = "findPayment" /\ job'[s] = r /\ payLock'[r.id] = s
    BY <1>1, <1>2, <1>3 DEF GoTo, Keep, TypeOK
  <1>5. SessionInv(s)'
    BY <1>4 DEF SessionInv, PayInv, CheckInv, CaptureInv, Paying, Deciding, PaymentSteps
  <1>6. /\ decision' = [decision EXCEPT ![s] = decision[s]] /\ decision[s] \in Decisions \cup {None}
        /\ loaded' = [loaded EXCEPT ![s] = loaded[s]] /\ loaded[s] \in Nat
    BY <1>1 DEF TypeOK
  <1>7. /\ rowLock' \in [Accounts -> Sessions \cup {NoSession}]
        /\ payLock' \in [PaymentIds -> Sessions \cup {NoSession}]
        /\ cardLock' \in [CardKeys -> Sessions \cup {NoSession}]
        /\ lineLock' \in [Accounts -> Sessions \cup {NoSession}]
    <2>1. payLock \in [PaymentIds -> Sessions \cup {NoSession}]
      BY <1>1 DEF TypeOK
    <2>2. payLock' \in [PaymentIds -> Sessions \cup {NoSession}]
      BY <1>3, <2>1
    <2> QED
      BY <1>1, <2>2 DEF TypeOK, StoreTypeOK
  <1>8. "findPayment" \in PaymentSteps
    BY DEF PaymentSteps
  <1>9. \A p \in PaymentIds : payLock[p] # NoSession => payLock'[p] = payLock[p]
    BY <1>1, <1>3 DEF TypeOK
  <1> QED
    BY <1>1, <1>5, <1>6, <1>7, <1>8, <1>9, MovesOn

\* A transaction that ends without writing.
LEMMA RollbackStep ==
    ASSUME IInv, NEW s \in Sessions, Busy(s),
           NEW a \in Decisions \cup {"CONFLICT", "ISSUED", "ERROR"}, Rollback(s, a)
    PROVE  IInv'
  <1>1. TypeOK /\ Finish(s, a)
    BY DEF IInv, Rollback
  <1>2. TypeOK'
    <2>1. /\ balance' \in [Accounts -> Nat] /\ ledgerOf' \in [Accounts \cup {System} -> Int]
          /\ moved' \in [Journals -> Nat]
      BY <1>1 DEF Rollback, TypeOK, StoreTypeOK
    <2>2. /\ cards' \subseteq CardKeys /\ lines' \subseteq Accounts
          /\ used' \in [Accounts -> 0 .. CreditLimit]
          /\ payments' \in [PaymentIds -> [request : Payments, decision : Decisions] \cup {NoPayment}]
      BY <1>1 DEF Rollback, TypeOK
    <2> QED
      BY <1>1, <2>1, <2>2, FinishedTypes
  <1>3. Spares(s)
    BY <1>1, FinishedSession DEF Spares, Rollback
  <1>4. SessionInv(s)'
    BY <1>1, FinishedSession
  <1>5. NoDivergentAccount' /\ DebitTakenOnce' /\ FlawedIsNotCaptured'
    BY RowsKept DEF Rollback
  <1> QED
    BY <1>2, <1>3, <1>4, <1>5, Carries

\* The types of the locks, and that an unlocked row may be locked.
LEMMA LockTypes ==
    ASSUME TypeOK
    PROVE  /\ rowLock \in [Accounts -> Sessions \cup {NoSession}]
           /\ payLock \in [PaymentIds -> Sessions \cup {NoSession}]
           /\ cardLock \in [CardKeys -> Sessions \cup {NoSession}]
           /\ lineLock \in [Accounts -> Sessions \cup {NoSession}]
  BY DEF TypeOK, StoreTypeOK

\* The checks of a request yield decline codes or nothing.
LEMMA DeclineCodes ==
    ASSUME NEW r
    PROVE  /\ EarlyDecline(r) \in (Decisions \ {"CAPTURED"}) \cup {None}
           /\ HolderDecline(r) \in (Decisions \ {"CAPTURED"}) \cup {None}
  BY DEF EarlyDecline, HolderDecline, Decisions, None

\* payments.findById.
LEMMA FindStep ==
    ASSUME IInv, NEW s \in Sessions, FindPayment(s)
    PROVE  IInv'
  <1>1. TypeOK /\ at[s] = "findPayment" /\ at[s] \in PaymentSteps /\ Busy(s)
    BY DEF IInv, FindPayment, PaymentSteps, Busy
  <1>2. PICK r \in Payments : r = job[s]
    BY <1>1, JobTypes
  <1>3. r.id \in PaymentIds /\ payLock[r.id] = s
    BY <1>1, <1>2, RequestTypes DEF IInv, SessionInv, PayInv, Paying
  <1>4. CASE Decided(r.id) /\ payments[r.id].request = r /\ Rollback(s, payments[r.id].decision)
    <2>1. payments[r.id].decision \in Decisions
      BY <1>1, <1>3, <1>4 DEF TypeOK, Decided
    <2> QED
      BY <1>1, <1>4, <2>1, RollbackStep
  <1>5. CASE Decided(r.id) /\ payments[r.id].request # r /\ Rollback(s, "CONFLICT")
    BY <1>1, <1>5, RollbackStep
  <1>6. CASE /\ ~Decided(r.id) /\ EarlyDecline(r) # None
             /\ Decide(s, EarlyDecline(r), 0)
             /\ Keep
             /\ UNCHANGED <<rowLock, payLock, cardLock, lineLock>>
    <2>1. EarlyDecline(r) \in Decisions /\ EarlyDecline(r) # "CAPTURED"
      BY <1>6, DeclineCodes
    <2>2. at'[s] = "commit" /\ job'[s] = r /\ decision'[s] = EarlyDecline(r)
      BY <1>1, <1>2, <1>6 DEF Decide, GoTo, Keep, TypeOK
    <2>3. payLock'[r.id] = s /\ payments'[r.id] = NoPayment
      BY <1>3, <1>6 DEF Keep, Decided
    <2>4. SessionInv(s)'
      BY <2>1, <2>2, <2>3 DEF SessionInv, PayInv, CheckInv, CaptureInv, Paying, Deciding
    <2>5. "commit" \in PaymentSteps /\ 0 \in Nat
      BY DEF PaymentSteps
    <2> QED
      BY <1>1, <1>6, <2>1, <2>4, <2>5, LockTypes, MovesOn DEF Decide
  <1>7. CASE /\ ~Decided(r.id) /\ EarlyDecline(r) = None
             /\ GoTo(s, "lockCard")
             /\ Keep
             /\ UNCHANGED <<rowLock, payLock, cardLock, lineLock, decision, loaded>>
    <2>1. at'[s] = "lockCard" /\ job'[s] = r
      BY <1>1, <1>2, <1>7 DEF GoTo, Keep, TypeOK
    <2>2. payLock'[r.id] = s /\ payments'[r.id] = NoPayment
      BY <1>3, <1>7 DEF Keep, Decided
    <2>3. SessionInv(s)'
      BY <1>7, <2>1, <2>2 DEF SessionInv, PayInv, CheckInv, CaptureInv, Paying, Deciding
    <2>4. /\ decision' = [decision EXCEPT ![s] = decision[s]] /\ decision[s] \in Decisions \cup {None}
          /\ loaded' = [loaded EXCEPT ![s] = loaded[s]] /\ loaded[s] \in Nat
      BY <1>1, <1>7 DEF TypeOK
    <2>5. "lockCard" \in PaymentSteps
      BY DEF PaymentSteps
    <2> QED
      BY <1>1, <1>7, <2>3, <2>4, <2>5, LockTypes, MovesOn
  <1> QED
    BY <1>2, <1>4, <1>5, <1>6, <1>7 DEF FindPayment

\* cards.findByPanFingerprintForUpdate.
LEMMA CardStep ==
    ASSUME IInv, NEW s \in Sessions, LockCard(s)
    PROVE  IInv'
  <1>1. TypeOK /\ at[s] = "lockCard" /\ at[s] \in PaymentSteps /\ Keep
        /\ UNCHANGED <<rowLock, payLock, lineLock>>
    BY DEF IInv, LockCard, PaymentSteps
  <1>2. PICK r \in Payments : r = job[s]
    BY <1>1, JobTypes
  <1>3. r.id \in PaymentIds /\ r.card \in CardKeys
    BY RequestTypes
  <1>4. payLock'[r.id] = s /\ payments'[r.id] = NoPayment /\ EarlyDecline(r) = None
    BY <1>1, <1>2 DEF IInv, SessionInv, PayInv, CheckInv, Paying, Deciding, Keep, PaymentSteps
  <1>5. "commit" \in PaymentSteps /\ "lockAccount" \in PaymentSteps /\ 0 \in Nat
    BY DEF PaymentSteps
  <1>6. job'[s] = r /\ cards' = cards
    BY <1>1, <1>2 DEF Keep
  <1>7. cardLock' \in [CardKeys -> Sessions \cup {NoSession}]
    BY <1>1, <1>2, <1>3, LockTypes DEF LockCard
  <1>8. ASSUME NEW d \in {"INVALID_CARD", "PAYMENT_TYPE_MISMATCH"}, Decide(s, d, 0) PROVE IInv'
    <2>1. d \in Decisions /\ d # "CAPTURED"
      BY DEF Decisions
    <2>2. at'[s] = "commit" /\ decision'[s] = d
      BY <1>1, <1>8 DEF Decide, GoTo, TypeOK
    <2>3. SessionInv(s)'
      BY <1>4, <1>6, <2>1, <2>2 DEF SessionInv, PayInv, CheckInv, CaptureInv, Paying, Deciding
    <2> QED
      BY <1>1, <1>5, <1>7, <1>8, <2>1, <2>3, LockTypes, MovesOn DEF Decide
  <1>9. CASE /\ r.card \in cards /\ r.card[2] = r.type /\ GoTo(s, "lockAccount")
             /\ UNCHANGED <<decision, loaded>>
    <2>1. at'[s] = "lockAccount"
      BY <1>1, <1>9 DEF GoTo, TypeOK
    <2>2. SessionInv(s)'
      BY <1>4, <1>6, <1>9, <2>1 DEF SessionInv, PayInv, CheckInv, CaptureInv, Paying, Deciding
    <2>3. /\ decision' = [decision EXCEPT ![s] = decision[s]] /\ decision[s] \in Decisions \cup {None}
          /\ loaded' = [loaded EXCEPT ![s] = loaded[s]] /\ loaded[s] \in Nat
      BY <1>1, <1>9 DEF TypeOK
    <2> QED
      BY <1>1, <1>5, <1>7, <1>9, <2>2, <2>3, LockTypes, MovesOn
  <1> QED
    BY <1>2, <1>8, <1>9 DEF LockCard

\* accounts.findByIdForUpdate and the checks after it.
LEMMA AccountStep ==
    ASSUME IInv, NEW s \in Sessions, LockAccount(s)
    PROVE  IInv'
  <1>1. TypeOK /\ at[s] = "lockAccount" /\ at[s] \in PaymentSteps /\ Keep
        /\ UNCHANGED <<payLock, cardLock, lineLock>>
    BY DEF IInv, LockAccount, PaymentSteps
  <1>2. PICK r \in Payments : r = job[s]
    BY <1>1, JobTypes
  <1>3. r.id \in PaymentIds /\ Owner(r) \in Accounts /\ r.type \in Types /\ r.amount \in Nat
    BY RequestTypes
  <1>4. /\ payLock'[r.id] = s /\ payments'[r.id] = NoPayment /\ EarlyDecline(r) = None
        /\ r.card \in cards' /\ r.card[2] = r.type
    BY <1>1, <1>2 DEF IInv, SessionInv, PayInv, CheckInv, Paying, Deciding, Keep, PaymentSteps
  <1>5. "commit" \in PaymentSteps /\ "lockLine" \in PaymentSteps /\ 0 \in Nat
    BY DEF PaymentSteps
  <1>6. job'[s] = r /\ balance' = balance /\ balance[Owner(r)] \in Nat
    BY <1>1, <1>2, <1>3 DEF Keep, TypeOK, StoreTypeOK
  <1>7. rowLock[Owner(r)] = NoSession /\ rowLock' = [rowLock EXCEPT ![Owner(r)] = s]
    BY <1>2 DEF LockAccount, LockRow
  <1>8. rowLock' \in [Accounts -> Sessions \cup {NoSession}] /\ rowLock'[Owner(r)] = s
        /\ \A a \in Accounts : rowLock[a] # NoSession => rowLock'[a] = rowLock[a]
    BY <1>1, <1>3, <1>7, LockTypes
  <1>9. ASSUME NEW d \in Decisions \ {"CAPTURED"}, Decide(s, d, 0) PROVE IInv'
    <2>1. at'[s] = "commit" /\ decision'[s] = d
      BY <1>1, <1>9 DEF Decide, GoTo, TypeOK
    <2>2. SessionInv(s)'
      BY <1>4, <1>6, <2>1 DEF SessionInv, PayInv, CheckInv, CaptureInv, Paying, Deciding
    <2> QED
      BY <1>1, <1>5, <1>8, <1>9, <2>2, LockTypes, MovesOn DEF Decide
  <1>10. CASE /\ HolderDecline(r) = None /\ r.type = "DEBIT" /\ balance[Owner(r)] >= r.amount
              /\ Decide(s, "CAPTURED", balance[Owner(r)] - r.amount)
    <2>1. balance[Owner(r)] - r.amount \in Nat /\ "CAPTURED" \in Decisions
      BY <1>3, <1>6, <1>10 DEF Decisions
    <2>2. at'[s] = "commit" /\ decision'[s] = "CAPTURED" /\ loaded'[s] = balance[Owner(r)] - r.amount
      BY <1>1, <1>10 DEF Decide, GoTo, TypeOK
    <2>3. SessionInv(s)'
      BY <1>4, <1>6, <1>8, <1>10, <2>1, <2>2
      DEF SessionInv, PayInv, CheckInv, CaptureInv, Paying, Deciding
    <2> QED
      BY <1>1, <1>5, <1>8, <1>10, <2>1, <2>3, LockTypes, MovesOn DEF Decide
  <1>11. CASE /\ HolderDecline(r) = None /\ r.type = "CREDIT" /\ GoTo(s, "lockLine")
              /\ UNCHANGED <<decision, loaded>>
    <2>1. at'[s] = "lockLine"
      BY <1>1, <1>11 DEF GoTo, TypeOK
    <2>2. SessionInv(s)'
      BY <1>4, <1>6, <1>11, <2>1 DEF SessionInv, PayInv, CheckInv, CaptureInv, Paying, Deciding
    <2>3. /\ decision' = [decision EXCEPT ![s] = decision[s]] /\ decision[s] \in Decisions \cup {None}
          /\ loaded' = [loaded EXCEPT ![s] = loaded[s]] /\ loaded[s] \in Nat
      BY <1>1, <1>11 DEF TypeOK
    <2> QED
      BY <1>1, <1>5, <1>8, <1>11, <2>2, <2>3, LockTypes, MovesOn
  <1>12. "INSUFFICIENT_FUNDS" \in Decisions \ {"CAPTURED"}
    BY DEF Decisions
  <1> QED
    BY <1>2, <1>9, <1>10, <1>11, <1>12, DeclineCodes DEF LockAccount

\* creditLines.findByIdForUpdate, canUse and use.
LEMMA LineStep ==
    ASSUME IInv, NEW s \in Sessions, LockLine(s)
    PROVE  IInv'
  <1>1. TypeOK /\ at[s] = "lockLine" /\ at[s] \in PaymentSteps /\ Keep
        /\ UNCHANGED <<rowLock, payLock, cardLock>>
    BY DEF IInv, LockLine, PaymentSteps
  <1>2. PICK r \in Payments : r = job[s]
    BY <1>1, JobTypes
  <1>3. r.id \in PaymentIds /\ Owner(r) \in Accounts /\ r.amount \in Nat
    BY RequestTypes
  <1>4. /\ payLock'[r.id] = s /\ payments'[r.id] = NoPayment /\ EarlyDecline(r) = None
        /\ r.card \in cards' /\ r.card[2] = r.type /\ HolderDecline(r) = None /\ r.type = "CREDIT"
    BY <1>1, <1>2 DEF IInv, SessionInv, PayInv, CheckInv, Paying, Deciding, Keep, PaymentSteps
  <1>5. "commit" \in PaymentSteps /\ 0 \in Nat
    BY DEF PaymentSteps
  <1>6. job'[s] = r /\ used[Owner(r)] \in 0 .. CreditLimit
    BY <1>1, <1>2, <1>3 DEF Keep, TypeOK
  <1>7. lineLock' \in [Accounts -> Sessions \cup {NoSession}]
    BY <1>1, <1>2, <1>3, LockTypes DEF LockLine
  <1>8. CASE Decide(s, "CREDIT_LIMIT_EXCEEDED", 0)
    <2>1. "CREDIT_LIMIT_EXCEEDED" \in Decisions
      BY DEF Decisions
    <2>2. at'[s] = "commit" /\ decision'[s] = "CREDIT_LIMIT_EXCEEDED"
      BY <1>1, <1>8 DEF Decide, GoTo, TypeOK
    <2>3. SessionInv(s)'
      BY <1>4, <1>6, <2>1, <2>2 DEF SessionInv, PayInv, CheckInv, CaptureInv, Paying, Deciding
    <2> QED
      BY <1>1, <1>5, <1>7, <1>8, <2>1, <2>3, LockTypes, MovesOn DEF Decide
  <1>9. CASE CreditLimit - used[Owner(r)] >= r.amount /\ Decide(s, "CAPTURED", used[Owner(r)] + r.amount)
    <2>1. "CAPTURED" \in Decisions
      BY DEF Decisions
    <2>2. /\ used[Owner(r)] + r.amount \in Nat
          /\ used[Owner(r)] + r.amount \in 0 .. CreditLimit
      BY <1>3, <1>6, <1>9, CardAssumption
    <2>3. at'[s] = "commit" /\ decision'[s] = "CAPTURED" /\ loaded'[s] = used[Owner(r)] + r.amount
      BY <1>1, <1>9 DEF Decide, GoTo, TypeOK
    <2>4. SessionInv(s)'
      BY <1>4, <1>6, <2>1, <2>2, <2>3
      DEF SessionInv, PayInv, CheckInv, CaptureInv, Paying, Deciding
    <2> QED
      BY <1>1, <1>5, <1>7, <1>9, <2>1, <2>2, <2>4, LockTypes, MovesOn DEF Decide
  <1> QED
    BY <1>2, <1>8, <1>9 DEF LockLine

-----------------------------------------------------------------------------
(* The statements that commit *)

\* payments.save, the flush and the COMMIT.
LEMMA CommitStep ==
    ASSUME IInv, NEW s \in Sessions, CommitPayment(s)
    PROVE  IInv'
  <1>1. TypeOK /\ at[s] = "commit" /\ at[s] \in PaymentSteps /\ Busy(s)
        /\ Finish(s, decision[s]) /\ UNCHANGED <<cards, lines>>
    BY DEF IInv, CommitPayment, PaymentSteps, Busy
  <1>2. PICK r \in Payments : r = job[s]
    BY <1>1, JobTypes
  <1> DEFINE a == Owner(r)
             taken == decision[s] = "CAPTURED"
  <1>3. /\ r.id \in PaymentIds /\ r.id \in Journals /\ a \in Accounts /\ a # System
        /\ r.type \in Types /\ r.amount \in Nat /\ r.flaws \subseteq Flaws
    BY RequestTypes
  <1>4. /\ payLock[r.id] = s /\ payments[r.id] = NoPayment /\ decision[s] \in Decisions
        /\ taken => /\ EarlyDecline(r) = None /\ HolderDecline(r) = None
                    /\ r.card \in cards /\ r.card[2] = r.type
        /\ taken /\ r.type = "DEBIT" => rowLock[a] = s /\ loaded[s] = balance[a] - r.amount
        /\ taken /\ r.type = "CREDIT" => loaded[s] \in 0 .. CreditLimit
    BY <1>1, <1>2 DEF IInv, SessionInv, PayInv, CaptureInv, Paying, Deciding
  <1>5. payments' = [payments EXCEPT ![r.id] = [request |-> r, decision |-> decision[s]]]
    BY <1>2 DEF CommitPayment
  <1>6. payments' \in [PaymentIds -> [request : Payments, decision : Decisions] \cup {NoPayment}]
    BY <1>1, <1>3, <1>4, <1>5 DEF TypeOK
  <1>7. \/ /\ taken /\ r.type = "DEBIT"
           /\ WriteBalances({a}, [balance EXCEPT ![a] = loaded[s]])
           /\ PostEntries(r.id, a, System, r.amount)
           /\ UNCHANGED used
        \/ /\ taken /\ r.type = "CREDIT"
           /\ used' = [used EXCEPT ![a] = loaded[s]]
           /\ UNCHANGED <<balance, ledgerOf, moved>>
        \/ ~taken /\ UNCHANGED <<balance, ledgerOf, moved, used>>
    BY <1>2 DEF CommitPayment
  <1>8. used' \in [Accounts -> 0 .. CreditLimit]
    BY <1>1, <1>3, <1>4, <1>7 DEF TypeOK
  <1>9. moved[r.id] = 0
    <2>1. payments[r.id].decision # "CAPTURED"
      BY <1>4 DEF NoPayment, None
    <2> QED
      BY <1>3, <2>1 DEF IInv, DebitTakenOnce
  <1>10. /\ balance' \in [Accounts -> Nat] /\ ledgerOf' \in [Accounts \cup {System} -> Int]
         /\ moved' \in [Journals -> Nat] /\ NoDivergentAccount'
         /\ \A b \in Accounts \ {a} : balance'[b] = balance[b]
         /\ rowLock[a] = s \/ balance' = balance
    <2>1. /\ balance \in [Accounts -> Nat] /\ ledgerOf \in [Accounts \cup {System} -> Int]
          /\ moved \in [Journals -> Nat] /\ \A b \in Accounts : balance[b] = ledgerOf[b]
          /\ loaded[s] \in Nat
      BY <1>1 DEF IInv, NoDivergentAccount, TypeOK, StoreTypeOK
    <2>2. CASE UNCHANGED <<balance, ledgerOf, moved>>
      BY <2>1, <2>2 DEF NoDivergentAccount
    <2>3. CASE /\ taken /\ r.type = "DEBIT"
               /\ WriteBalances({a}, [balance EXCEPT ![a] = loaded[s]])
               /\ PostEntries(r.id, a, System, r.amount)
      <3>1. balance' = [balance EXCEPT ![a] = loaded[s]]
        BY <1>3, <2>1, <2>3 DEF WriteBalances
      <3>2. /\ ledgerOf' = [ledgerOf EXCEPT ![a] = @ - r.amount, ![System] = @ + r.amount]
            /\ moved' = [moved EXCEPT ![r.id] = @ + r.amount]
        BY <2>3 DEF PostEntries
      <3>3. \A b \in Accounts : b # System
        BY StoreAssumption DEF System
      <3>4. ledgerOf' \in [Accounts \cup {System} -> Int] /\ moved' \in [Journals -> Nat]
        BY <1>3, <2>1, <3>2
      <3>5. \A b \in Accounts : balance'[b] = ledgerOf'[b]
        BY <1>3, <1>4, <2>1, <2>3, <3>1, <3>2, <3>3
      <3> QED
        BY <1>3, <1>4, <2>1, <2>3, <3>1, <3>4, <3>5 DEF NoDivergentAccount
    <2> QED
      BY <1>7, <2>2, <2>3
  <1>11. TypeOK'
    <2>1. cards' \subseteq CardKeys /\ lines' \subseteq Accounts
      BY <1>1 DEF TypeOK
    <2> QED
      BY <1>1, <1>4, <1>6, <1>8, <1>10, <2>1, FinishedTypes
  <1>12. Spares(s)
    <2>1. \A p \in PaymentIds : payLock[p] \in Sessions \ {s} => payments'[p] = payments[p]
      BY <1>1, <1>3, <1>4, <1>5 DEF TypeOK
    <2>2. \A b \in Accounts : rowLock[b] \in Sessions \ {s} => balance'[b] = balance[b]
      BY <1>3, <1>10
    <2> QED
      BY <1>1, <2>1, <2>2, FinishedSession DEF Spares
  <1>13. SessionInv(s)'
    BY <1>1, FinishedSession
  <1>14. payments'[r.id] = [request |-> r, decision |-> decision[s]]
         /\ \A p \in PaymentIds \ {r.id} : payments'[p] = payments[p]
    BY <1>1, <1>3, <1>5 DEF TypeOK
  <1>15. DebitTakenOnce'
    <2>1. \A p \in PaymentIds \ {r.id} : moved'[p] = moved[p]
      BY <1>1, <1>7, CardAssumption DEF PostEntries, TypeOK, StoreTypeOK
    <2>2. moved'[r.id] = IF taken /\ r.type = "DEBIT" THEN r.amount ELSE 0
      BY <1>1, <1>3, <1>7, <1>9 DEF PostEntries, TypeOK, StoreTypeOK
    <2> QED
      BY <1>14, <2>1, <2>2 DEF IInv, DebitTakenOnce
  <1>16. FlawedIsNotCaptured'
    <2>1. taken => r.flaws \subseteq (IF r.type = "CREDIT" THEN {"installments"} ELSE {})
      <3> SUFFICES ASSUME taken, NEW f \in r.flaws
                   PROVE  f = "installments" /\ r.type = "CREDIT"
        OBVIOUS
      <3>1. f \in Flaws
        BY <1>3
      <3>2. f = "installments" /\ r.type # "DEBIT"
        BY <1>4, <3>1 DEF EarlyDecline, HolderDecline, Flaws, None
      <3> QED
        BY <1>3, <3>2 DEF Types
    <2> QED
      BY <1>1, <1>4, <1>14, <2>1 DEF IInv, FlawedIsNotCaptured
  <1> QED
    BY <1>10, <1>11, <1>12, <1>13, <1>15, <1>16, Carries

-----------------------------------------------------------------------------
(* Sessions that issue a card, and the ends of a request *)

\* Any other step of a session: it writes no row and takes at most the lock of
\* an accounts row.
LEMMA Elsewhere ==
    ASSUME IInv, NEW s \in Sessions,
           NEW step \in IssueSteps \cup {"advisory", "idle"}, GoTo(s, step),
           NEW j \in Payments \cup IssueRequest \cup {NoJob}, job' = [job EXCEPT ![s] = j],
           step = "advisory" => j \in Payments, step \in IssueSteps => j \in IssueRequest,
           UNCHANGED <<balance, ledgerOf, moved, cards, lines, used, payments,
                       payLock, cardLock, lineLock, decision, loaded>>,
           rowLock' \in [Accounts -> Sessions \cup {NoSession}],
           \A a \in Accounts : rowLock[a] # NoSession => rowLock'[a] = rowLock[a],
           answer' \in [Sessions -> Decisions \cup {None, "CONFLICT", "ISSUED", "ERROR"}]
    PROVE  IInv'
  <1>1. TypeOK
    BY DEF IInv
  <1>2. StoreTypeOK'
    BY <1>1 DEF TypeOK, StoreTypeOK
  <1>3. at' = [at EXCEPT ![s] = step] /\ at' \in [Sessions -> PaymentSteps \cup IssueSteps \cup {"idle", "done"}]
    BY <1>1 DEF TypeOK, GoTo, PaymentSteps
  <1>4. /\ job'[s] = j /\ \A t \in Sessions \ {s} : job'[t] = job[t]
        /\ job' \in [Sessions -> Payments \cup IssueRequest \cup {NoJob}]
    BY <1>1 DEF TypeOK
  <1>5. at'[s] = step /\ \A t \in Sessions \ {s} : at'[t] = at[t]
    BY <1>1, <1>3 DEF TypeOK
  <1>6. \A t \in Sessions :
          job'[t] \in CASE at'[t] \in PaymentSteps -> Payments
                        [] at'[t] \in IssueSteps -> IssueRequest
                        [] OTHER -> Payments \cup IssueRequest \cup {NoJob}
    BY <1>1, <1>4, <1>5 DEF TypeOK, PaymentSteps, IssueSteps
  <1>7. TypeOK'
    BY <1>1, <1>2, <1>3, <1>4, <1>6 DEF TypeOK
  <1>8. Spares(s)
    BY <1>1, <1>4, <1>5, StoreAssumption DEF TypeOK, Spares
  <1>9. SessionInv(s)'
    BY <1>5 DEF SessionInv, PayInv, CheckInv, CaptureInv, Paying, Deciding, PaymentSteps, IssueSteps
  <1>10. NoDivergentAccount' /\ DebitTakenOnce' /\ FlawedIsNotCaptured'
    BY RowsKept
  <1> QED
    BY <1>7, <1>8, <1>9, <1>10, Carries

\* A request arrives, or its answer leaves.
LEMMA RequestStep ==
    ASSUME IInv, NEW s \in Sessions, Receive(s) \/ Return(s)
    PROVE  IInv'
  <1>1. /\ rowLock \in [Accounts -> Sessions \cup {NoSession}]
        /\ answer \in [Sessions -> Decisions \cup {None, "CONFLICT", "ISSUED", "ERROR"}]
    BY LockTypes DEF IInv, TypeOK
  <1>2. ASSUME NEW r \in Payments, ReceivePayment(s, r) PROVE IInv'
    <2>1. /\ "advisory" \notin IssueSteps /\ r \in Payments \cup IssueRequest \cup {NoJob}
          /\ "advisory" \in IssueSteps \cup {"advisory", "idle"}
      BY DEF IssueSteps
    <2>2. /\ GoTo(s, "advisory") /\ job' = [job EXCEPT ![s] = r]
          /\ UNCHANGED <<balance, ledgerOf, moved, cards, lines, used, payments,
                         payLock, cardLock, lineLock, decision, loaded>>
          /\ rowLock' = rowLock /\ answer' = answer
      BY <1>2 DEF ReceivePayment, storeVars
    <2> QED
      BY <1>1, <2>1, <2>2, Elsewhere
  <1>3. ASSUME NEW c \in CardKeys, ReceiveIssue(s, c) PROVE IInv'
    <2> DEFINE j == [card |-> c]
    <2>1. /\ "lockOwner" \in IssueSteps \cup {"advisory", "idle"}
          /\ j \in IssueRequest /\ j \in Payments \cup IssueRequest \cup {NoJob}
      BY DEF IssueRequest, IssueSteps
    <2>2. /\ GoTo(s, "lockOwner") /\ job' = [job EXCEPT ![s] = j]
          /\ UNCHANGED <<balance, ledgerOf, moved, cards, lines, used, payments,
                         payLock, cardLock, lineLock, decision, loaded>>
          /\ rowLock' = rowLock /\ answer' = answer
      BY <1>3 DEF ReceiveIssue, storeVars
    <2> HIDE DEF j
    <2> QED
      BY <1>1, <2>1, <2>2, Elsewhere
  <1>4. CASE Return(s)
    <2>1. answer' \in [Sessions -> Decisions \cup {None, "CONFLICT", "ISSUED", "ERROR"}]
      BY <1>1, <1>4 DEF Return
    <2>2. /\ "idle" \notin IssueSteps /\ NoJob \in Payments \cup IssueRequest \cup {NoJob}
          /\ "idle" \in IssueSteps \cup {"advisory", "idle"}
      BY DEF IssueSteps
    <2>3. /\ GoTo(s, "idle") /\ job' = [job EXCEPT ![s] = NoJob]
          /\ UNCHANGED <<balance, ledgerOf, moved, cards, lines, used, payments,
                         payLock, cardLock, lineLock, decision, loaded>>
          /\ rowLock' = rowLock
      BY <1>4 DEF Return, storeVars
    <2> QED
      BY <1>1, <2>1, <2>2, <2>3, Elsewhere
  <1> QED
    BY <1>2, <1>3, <1>4 DEF Receive

\* findByIdForUpdate of the account that gets a card.
LEMMA OwnerStep ==
    ASSUME IInv, NEW s \in Sessions, LockOwner(s)
    PROVE  IInv'
  <1>1. TypeOK /\ at[s] = "lockOwner" /\ at[s] \in IssueSteps /\ GoTo(s, "findCard") /\ Keep
    BY DEF IInv, LockOwner, IssueSteps
  <1>2. PICK j \in IssueRequest : j = job[s] /\ j.card \in CardKeys
    BY <1>1, JobTypes
  <1>3. Owner(j) \in Accounts
    BY <1>2 DEF Owner, CardKeys
  <1>4. rowLock[Owner(j)] = NoSession /\ rowLock' = [rowLock EXCEPT ![Owner(j)] = s]
    BY <1>2 DEF LockOwner, LockRow
  <1>5. rowLock' \in [Accounts -> Sessions \cup {NoSession}]
        /\ \A a \in Accounts : rowLock[a] # NoSession => rowLock'[a] = rowLock[a]
    BY <1>1, <1>3, <1>4, LockTypes
  <1>6. job' = [job EXCEPT ![s] = j]
    BY <1>1, <1>2 DEF TypeOK, Keep
  <1>7. answer' \in [Sessions -> Decisions \cup {None, "CONFLICT", "ISSUED", "ERROR"}]
    BY <1>1 DEF TypeOK, Keep
  <1>8. /\ "findCard" \in IssueSteps \cup {"advisory", "idle"}
        /\ j \in Payments \cup IssueRequest \cup {NoJob}
    BY DEF IssueSteps
  <1>9. UNCHANGED <<balance, ledgerOf, moved, cards, lines, used, payments,
                    payLock, cardLock, lineLock, decision, loaded>>
    BY DEF LockOwner, Keep
  <1> QED
    BY <1>1, <1>5, <1>6, <1>7, <1>8, <1>9, Elsewhere

\* findByAccountIdAndType, and the draw of a number.
LEMMA FindCardStep ==
    ASSUME IInv, NEW s \in Sessions, FindCard(s)
    PROVE  IInv'
  <1>1. TypeOK /\ at[s] = "findCard" /\ at[s] \in IssueSteps /\ Busy(s)
    BY DEF IInv, FindCard, IssueSteps, Busy
  <1>2. CASE Rollback(s, "ERROR")
    BY <1>1, <1>2, RollbackStep
  <1>3. CASE /\ GoTo(s, "saveCard") /\ Keep
             /\ UNCHANGED <<rowLock, payLock, cardLock, lineLock, decision, loaded>>
    <2>1. PICK j \in IssueRequest : j = job[s]
      BY <1>1, JobTypes
    <2>2. job' = [job EXCEPT ![s] = j] /\ answer' = answer
          /\ answer \in [Sessions -> Decisions \cup {None, "CONFLICT", "ISSUED", "ERROR"}]
      BY <1>1, <1>3, <2>1 DEF TypeOK, Keep
    <2>3. /\ "saveCard" \in IssueSteps \cup {"advisory", "idle"}
          /\ j \in Payments \cup IssueRequest \cup {NoJob}
      BY DEF IssueSteps
    <2>4. UNCHANGED <<balance, ledgerOf, moved, cards, lines, used, payments,
                      payLock, cardLock, lineLock, decision, loaded>>
      BY <1>3 DEF Keep
    <2> QED
      BY <1>1, <1>3, <2>2, <2>3, <2>4, LockTypes, Elsewhere
  <1> QED
    BY <1>2, <1>3 DEF FindCard

\* cards.save, ensureCreditLine and the COMMIT.
LEMMA SaveCardStep ==
    ASSUME IInv, NEW s \in Sessions, SaveCard(s)
    PROVE  IInv'
  <1>1. /\ TypeOK /\ at[s] = "saveCard" /\ at[s] \in IssueSteps /\ Busy(s)
        /\ Finish(s, "ISSUED") /\ UNCHANGED <<balance, ledgerOf, moved, used, payments>>
    BY DEF IInv, SaveCard, IssueSteps, Busy
  <1>2. job[s].card \in CardKeys /\ Owner(job[s]) \in Accounts
    BY <1>1, JobTypes DEF Owner, CardKeys
  <1>3. cards \subseteq cards' /\ cards' \subseteq CardKeys /\ lines' \subseteq Accounts
    BY <1>1, <1>2 DEF SaveCard, TypeOK
  <1>4. TypeOK'
    <2>1. /\ balance' \in [Accounts -> Nat] /\ ledgerOf' \in [Accounts \cup {System} -> Int]
          /\ moved' \in [Journals -> Nat]
      BY <1>1 DEF TypeOK, StoreTypeOK
    <2>2. /\ used' \in [Accounts -> 0 .. CreditLimit]
          /\ payments' \in [PaymentIds -> [request : Payments, decision : Decisions] \cup {NoPayment}]
      BY <1>1 DEF TypeOK
    <2> QED
      BY <1>1, <1>3, <2>1, <2>2, FinishedTypes
  <1>5. Spares(s)
    BY <1>1, <1>3, FinishedSession DEF Spares
  <1>6. SessionInv(s)'
    BY <1>1, FinishedSession
  <1>7. NoDivergentAccount' /\ DebitTakenOnce' /\ FlawedIsNotCaptured'
    BY <1>1, <1>3, RowsKept
  <1> QED
    BY <1>3, <1>4, <1>5, <1>6, <1>7, Carries

-----------------------------------------------------------------------------
LEMMA NextIInv == IInv /\ [Next]_vars => IInv'
  <1> SUFFICES ASSUME IInv, [Next]_vars PROVE IInv'
    OBVIOUS
  <1>1. CASE UNCHANGED vars
    BY <1>1 DEF vars, storeVars, cardVars, IInv, TypeOK, StoreTypeOK, NoDivergentAccount,
                DebitTakenOnce, FlawedIsNotCaptured, SessionInv, PayInv, CheckInv, CaptureInv
  <1>2. ASSUME NEW s \in Sessions, Receive(s) \/ Step(s) \/ Crash(s) \/ Return(s) PROVE IInv'
    <2>1. CASE Receive(s) \/ Return(s)
      BY <2>1, RequestStep
    <2>2. CASE Crash(s)
      BY <2>2, RollbackStep DEF Crash
    <2>3. CASE Step(s)
      BY <2>3, AcquireStep, CardStep, AccountStep, LineStep, OwnerStep, FindStep, CommitStep,
         FindCardStep, SaveCardStep DEF Step, WaitStep
    <2> QED
      BY <1>2, <2>1, <2>2, <2>3
  <1> QED
    BY <1>1, <1>2 DEF Next

LEMMA Invariance == Spec => []IInv
  BY InitIInv, NextIInv, PTL DEF Spec

\* Every variable keeps its type; in particular no credit line is ever used
\* beyond CREDIT_LIMIT, whatever the limit and however the payments race.
THEOREM CardTypes == Spec => []TypeOK
  <1>1. IInv => TypeOK
    BY DEF IInv
  <1> QED
    BY <1>1, Invariance, PTL

\* The debit purchases the issuer captures leave every balance equal to the sum
\* of its ledger entries, through declines, conflicts and crashes.
THEOREM CardsKeepLedger == Spec => []NoDivergentAccount
  <1>1. IInv => NoDivergentAccount
    BY DEF IInv
  <1> QED
    BY <1>1, Invariance, PTL

\* No payment with a flaw the issuer checks is captured, nor one whose card is
\* of the other type or was never issued.
THEOREM FlawedIsNeverCaptured == Spec => []FlawedIsNotCaptured
  <1>1. IInv => FlawedIsNotCaptured
    BY DEF IInv
  <1> QED
    BY <1>1, Invariance, PTL

\* A captured debit payment moves its amount exactly once, over any number of
\* retries and crashes, and no other payment moves any.
THEOREM DebitsAreTakenOnce == Spec => []DebitTakenOnce
  <1>1. IInv => DebitTakenOnce
    BY DEF IInv
  <1> QED
    BY <1>1, Invariance, PTL

-----------------------------------------------------------------------------
(* The credit line: what its payments took *)

Amounts == [p \in PaymentIds |-> payments[p].request.amount]

\* The session that is about to use a credit line holds its lock, and has read
\* what is used of it.
HoldsLine(s) ==
    LET r == job[s]
    IN at[s] = "commit" /\ decision[s] = "CAPTURED" /\ r.type = "CREDIT" =>
          /\ lineLock[Owner(r)] = s
          /\ loaded[s] = used[Owner(r)] + r.amount

\* Every line was used for finitely many payments, and for their sum.
LineSums ==
    \A a \in Accounts :
        /\ IsFiniteSet(CreditTaken(a))
        /\ used[a] = Sum(Amounts, CreditTaken(a))

CreditInv == LineSums /\ \A s \in Sessions : HoldsLine(s)

\* The sum of CapturedOnce, as a sum of values of a function.
LEMMA AmountsSum ==
    ASSUME NEW S \in SUBSET PaymentIds
    PROVE  MapThenSumSet(LAMBDA p : payments[p].request.amount, S) = Sum(Amounts, S)
  <1> DEFINE Eq(g) == g = [T \in SUBSET S |->
                             IF T = {} THEN 0
                             ELSE payments[Pick(T)].request.amount + g[Rest(T)]]
  <1>1. \A T \in SUBSET S : T # {} => payments[Pick(T)].request.amount = Amounts[Pick(T)]
    BY PickRest DEF Amounts
  <1>2. \A g : Eq(g) <=> IsTotals(g, Amounts, S)
    BY <1>1 DEF IsTotals
  <1>3. (CHOOSE g : Eq(g)) = (CHOOSE g : IsTotals(g, Amounts, S))
    BY <1>2
  <1>4. MapThenSumSet(LAMBDA p : payments[p].request.amount, S) = (CHOOSE g : Eq(g))[S]
    BY DEF MapThenSumSet, MapThenFoldSet, Pick, Rest
  <1> QED
    BY <1>3, <1>4, SumIsTotal DEF Total

\* What a credit payment that was captured is.
LEMMA TakenTypes ==
    ASSUME TypeOK, NEW a \in Accounts, NEW p \in CreditTaken(a)
    PROVE  /\ p \in PaymentIds /\ payments[p] # NoPayment
           /\ Amounts[p] \in Int /\ Amounts[p] = payments[p].request.amount
  <1>1. p \in PaymentIds /\ payments[p].decision = "CAPTURED"
    BY DEF CreditTaken
  <1>2. payments[p] # NoPayment
    BY <1>1 DEF NoPayment, None
  <1>3. payments[p] \in [request : Payments, decision : Decisions]
    BY <1>1, <1>2 DEF TypeOK
  <1>4. payments[p].request.amount \in Nat
    BY <1>3, RequestTypes
  <1> QED
    BY <1>1, <1>2, <1>4 DEF Amounts

\* The sums are about used and payments only.
LEMMA SumsKept ==
    ASSUME LineSums, used' = used, payments' = payments
    PROVE  LineSums'
  BY DEF LineSums, CreditTaken, Amounts

\* A session that neither has nor gets a line to use.
LEMMA HoldsNothing ==
    ASSUME NEW s \in Sessions, at'[s] # "commit" \/ decision'[s] # "CAPTURED"
                               \/ job'[s].type # "CREDIT"
    PROVE  HoldsLine(s)'
  BY DEF HoldsLine

\* Another session keeps its hold while its line and its lock are left alone.
LEMMA HoldKept ==
    ASSUME TypeOK, NEW s \in Sessions, NEW t \in Sessions \ {s}, HoldsLine(t),
           at'[t] = at[t], job'[t] = job[t], decision'[t] = decision[t], loaded'[t] = loaded[t],
           \A a \in Accounts :
              lineLock[a] \in Sessions \ {s} => lineLock'[a] = lineLock[a] /\ used'[a] = used[a]
    PROVE  HoldsLine(t)'
  <1>1. CASE at[t] = "commit"
    <2>1. job[t] \in Payments
      BY <1>1, JobTypes DEF PaymentSteps
    <2>2. Owner(job[t]) \in Accounts
      BY <2>1, RequestTypes
    <2> QED
      BY <2>2 DEF HoldsLine
  <1>2. CASE at[t] # "commit"
    BY <1>2 DEF HoldsLine
  <1> QED
    BY <1>1, <1>2

\* A transaction that ends without using a line.
LEMMA CreditFinish ==
    ASSUME TypeOK, CreditInv, NEW s \in Sessions, NEW a, Finish(s, a),
           used' = used, LineSums'
    PROVE  CreditInv'
  <1>1. at'[s] # "commit"
    BY DEF Finish, GoTo, TypeOK
  <1>2. \A b \in Accounts : lineLock[b] \in Sessions \ {s} => lineLock'[b] = lineLock[b]
    BY DEF Finish, FreedBy, TypeOK
  <1>3. \A t \in Sessions \ {s} : HoldsLine(t)'
    BY <1>2, FinishedSession, HoldKept DEF CreditInv
  <1> QED
    BY <1>1, <1>3, HoldsNothing DEF CreditInv

\* A statement that leaves the lines and their locks alone.
LEMMA CreditQuiet ==
    ASSUME TypeOK, CreditInv, NEW s \in Sessions, UNCHANGED <<used, payments, lineLock>>,
           \A t \in Sessions \ {s} :
              /\ at'[t] = at[t] /\ job'[t] = job[t]
              /\ decision'[t] = decision[t] /\ loaded'[t] = loaded[t],
           HoldsLine(s)'
    PROVE  CreditInv'
  <1>1. \A t \in Sessions \ {s} : HoldsLine(t)'
    BY HoldKept DEF CreditInv
  <1> QED
    BY <1>1, SumsKept DEF CreditInv

\* creditLines.findByIdForUpdate, canUse and use.
LEMMA CreditLineStep ==
    ASSUME IInv, CreditInv, NEW s \in Sessions, LockLine(s)
    PROVE  CreditInv'
  <1>1. TypeOK /\ at[s] = "lockLine" /\ Keep
    BY DEF IInv, LockLine
  <1>2. PICK r \in Payments : r = job[s]
    BY <1>1, JobTypes DEF PaymentSteps
  <1> DEFINE a == Owner(r)
  <1>3. a \in Accounts
    BY RequestTypes
  <1>4. lineLock[a] = NoSession /\ lineLock' = [lineLock EXCEPT ![a] = s]
        /\ (Decide(s, "CREDIT_LIMIT_EXCEEDED", 0) \/ Decide(s, "CAPTURED", used[a] + r.amount))
    BY <1>2 DEF LockLine
  <1>5. /\ \A t \in Sessions \ {s} :
              /\ at'[t] = at[t] /\ job'[t] = job[t]
              /\ decision'[t] = decision[t] /\ loaded'[t] = loaded[t]
        /\ job'[s] = r /\ used' = used /\ payments' = payments
    BY <1>1, <1>2, <1>4 DEF Decide, GoTo, Keep, TypeOK
  <1>6. lineLock'[a] = s
        /\ \A b \in Accounts : lineLock[b] \in Sessions \ {s} => lineLock'[b] = lineLock[b]
    BY <1>1, <1>3, <1>4, StoreAssumption DEF TypeOK
  <1>7. HoldsLine(s)'
    <2>1. CASE Decide(s, "CREDIT_LIMIT_EXCEEDED", 0)
      <3>1. decision'[s] = "CREDIT_LIMIT_EXCEEDED"
        BY <1>1, <2>1 DEF Decide, TypeOK
      <3> QED
        BY <3>1, HoldsNothing
    <2>2. CASE Decide(s, "CAPTURED", used[a] + r.amount)
      <3>1. loaded'[s] = used[a] + r.amount
        BY <1>1, <2>2 DEF Decide, TypeOK
      <3> QED
        BY <1>5, <1>6, <3>1 DEF HoldsLine
    <2> QED
      BY <1>4, <2>1, <2>2
  <1>8. \A t \in Sessions \ {s} : HoldsLine(t)'
    BY <1>1, <1>5, <1>6, HoldKept DEF CreditInv
  <1> QED
    BY <1>5, <1>7, <1>8, SumsKept DEF CreditInv

\* payments.save and the COMMIT: a captured credit payment joins those its line
\* paid, with the amount that is added to the line.
LEMMA CreditCommitStep ==
    ASSUME IInv, CreditInv, NEW s \in Sessions, CommitPayment(s)
    PROVE  CreditInv'
  <1>1. TypeOK /\ at[s] = "commit" /\ Finish(s, decision[s])
    BY DEF IInv, CommitPayment
  <1>2. PICK r \in Payments : r = job[s]
    BY <1>1, JobTypes DEF PaymentSteps
  <1> DEFINE a == Owner(r)
             credit == decision[s] = "CAPTURED" /\ r.type = "CREDIT"
  <1>3. r.id \in PaymentIds /\ a \in Accounts /\ r.amount \in Nat /\ r.type \in Types
    BY RequestTypes
  <1>4. payments[r.id] = NoPayment
    BY <1>1, <1>2 DEF IInv, SessionInv, PayInv, Deciding, Paying, PaymentSteps
  <1>5. /\ payments'[r.id] = [request |-> r, decision |-> decision[s]]
        /\ \A p \in PaymentIds \ {r.id} : payments'[p] = payments[p]
    BY <1>1, <1>2, <1>3 DEF CommitPayment, TypeOK
  <1>6. credit => lineLock[a] = s /\ used' = [used EXCEPT ![a] = used[a] + r.amount]
    BY <1>1, <1>2 DEF CreditInv, HoldsLine, CommitPayment, Types
  <1>7. ~credit => used' = used
    BY <1>2 DEF CommitPayment
  <1>8. \A b \in Accounts : r.id \notin CreditTaken(b)
    BY <1>1, <1>4, TakenTypes
  <1>9. \A b \in Accounts :
           CreditTaken(b)' = IF credit /\ b = a THEN CreditTaken(b) \cup {r.id} ELSE CreditTaken(b)
    BY <1>3, <1>5, <1>8 DEF CreditTaken
  <1>10. ASSUME NEW b \in Accounts
         PROVE  /\ \A p \in CreditTaken(b) : Amounts[p] \in Int /\ Amounts'[p] = Amounts[p]
                /\ IsFiniteSet(CreditTaken(b)) /\ used[b] = Sum(Amounts, CreditTaken(b))
                /\ Sum(Amounts', CreditTaken(b)) = Sum(Amounts, CreditTaken(b))
    <2>1. \A p \in CreditTaken(b) : Amounts[p] \in Int /\ Amounts'[p] = Amounts[p]
      <3> SUFFICES ASSUME NEW p \in CreditTaken(b)
                   PROVE  Amounts[p] \in Int /\ Amounts'[p] = Amounts[p]
        OBVIOUS
      <3>1. p \in PaymentIds /\ Amounts[p] \in Int /\ p # r.id
        BY <1>1, <1>8, TakenTypes
      <3>2. payments'[p] = payments[p]
        BY <1>5, <3>1
      <3> QED
        BY <3>1, <3>2 DEF Amounts
    <2>2. IsFiniteSet(CreditTaken(b)) /\ used[b] = Sum(Amounts, CreditTaken(b))
      BY DEF CreditInv, LineSums
    <2>3. Sum(Amounts', CreditTaken(b)) = Sum(Amounts, CreditTaken(b))
      BY <2>1, <2>2, SumSame
    <2> QED
      BY <2>1, <2>2, <2>3
  <1>11. ASSUME NEW b \in Accounts
         PROVE  IsFiniteSet(CreditTaken(b)') /\ used'[b] = Sum(Amounts', CreditTaken(b)')
    <2>1. CASE credit /\ b = a
      <3> DEFINE S == CreditTaken(b) \cup {r.id}
      <3>1. Amounts'[r.id] = r.amount
        BY <1>3, <1>5 DEF Amounts
      <3>2. IsFiniteSet(S) /\ S \ {r.id} = CreditTaken(b)
        BY <1>8, <1>10, FS_AddElement
      <3>3. \A p \in S : Amounts'[p] \in Int
        BY <1>3, <1>10, <3>1
      <3> HIDE DEF S
      <3>4. r.id \in S
        BY DEF S
      <3>5. Sum(Amounts', S) = Amounts'[r.id] + Sum(Amounts', S \ {r.id})
        BY <3>2, <3>3, <3>4, SumRemove
      <3>6. used[b] \in Int /\ used'[b] = used[b] + r.amount
        BY <1>1, <1>3, <1>6, <2>1, CardAssumption DEF TypeOK
      <3>7. Sum(Amounts', S \ {r.id}) = used[b]
        BY <1>10, <3>2
      <3>8. Sum(Amounts', S) = r.amount + used[b]
        BY <3>1, <3>5, <3>7
      <3>9. r.amount \in Int /\ \A i, j \in Int : i + j = j + i
        BY <1>3
      <3>10. Sum(Amounts', S) = used'[b]
        BY <3>6, <3>8, <3>9
      <3> QED
        BY <1>9, <2>1, <3>2, <3>10 DEF S
    <2>2. CASE ~(credit /\ b = a)
      <3>1. used'[b] = used[b]
        BY <1>1, <1>6, <1>7, <2>2 DEF TypeOK
      <3> QED
        BY <1>9, <1>10, <2>2, <3>1
    <2> QED
      BY <2>1, <2>2
  <1>12. \A b \in Accounts :
            lineLock[b] \in Sessions \ {s} => lineLock'[b] = lineLock[b] /\ used'[b] = used[b]
    <2>1. \A b \in Accounts : lineLock[b] \in Sessions \ {s} => lineLock'[b] = lineLock[b]
      BY <1>1 DEF Finish, FreedBy, TypeOK
    <2>2. \A b \in Accounts : lineLock[b] \in Sessions \ {s} => used'[b] = used[b]
      BY <1>1, <1>3, <1>6, <1>7 DEF TypeOK
    <2> QED
      BY <2>1, <2>2
  <1>13. at'[s] # "commit"
    BY <1>1 DEF Finish, GoTo, TypeOK
  <1>14. \A t \in Sessions \ {s} : HoldsLine(t)'
    BY <1>1, <1>12, FinishedSession, HoldKept DEF CreditInv
  <1> QED
    BY <1>11, <1>13, <1>14, HoldsNothing DEF CreditInv, LineSums

\* Every other statement.
LEMMA CreditOtherStep ==
    ASSUME IInv, CreditInv, NEW s \in Sessions,
           \/ Receive(s) \/ Return(s) \/ Crash(s)
           \/ AcquirePaymentLock(s) \/ LockCard(s) \/ LockAccount(s) \/ LockOwner(s)
           \/ FindPayment(s) \/ FindCard(s) \/ SaveCard(s)
    PROVE  CreditInv'
  <1>1. TypeOK
    BY DEF IInv
  <1>2. ASSUME NEW a, Rollback(s, a) PROVE CreditInv'
    BY <1>1, <1>2, SumsKept, CreditFinish DEF Rollback, CreditInv
  <1>3. ASSUME NEW step, GoTo(s, step), UNCHANGED <<used, payments, lineLock>>,
               \A t \in Sessions \ {s} : job'[t] = job[t],
               NEW d, NEW n, \/ UNCHANGED <<decision, loaded>>
                             \/ /\ decision' = [decision EXCEPT ![s] = d]
                                /\ loaded' = [loaded EXCEPT ![s] = n],
               HoldsLine(s)'
        PROVE  CreditInv'
    <2>1. \A t \in Sessions \ {s} :
             /\ at'[t] = at[t] /\ job'[t] = job[t]
             /\ decision'[t] = decision[t] /\ loaded'[t] = loaded[t]
      BY <1>1, <1>3 DEF GoTo, TypeOK
    <2> QED
      BY <1>1, <1>3, <2>1, CreditQuiet
  <1>4. ASSUME NEW step, step # "commit", GoTo(s, step), UNCHANGED <<used, payments, lineLock>>,
               \A t \in Sessions \ {s} : job'[t] = job[t], UNCHANGED <<decision, loaded>>
        PROVE  CreditInv'
    <2>1. at'[s] # "commit"
      BY <1>1, <1>4 DEF GoTo, TypeOK
    <2> QED
      BY <1>3, <1>4, <2>1, HoldsNothing
  <1>5. ASSUME NEW d, NEW n, Decide(s, d, n), UNCHANGED <<used, payments, lineLock, job>>,
               d # "CAPTURED" \/ job[s].type # "CREDIT"
        PROVE  CreditInv'
    <2>1. decision'[s] = d /\ job'[s] = job[s]
      BY <1>1, <1>5 DEF Decide, TypeOK
    <2> QED
      BY <1>3, <1>5, <2>1, HoldsNothing DEF Decide
  <1>6. CASE Receive(s) \/ Return(s)
    <2>1. ASSUME NEW j, job' = [job EXCEPT ![s] = j] PROVE \A t \in Sessions \ {s} : job'[t] = job[t]
      BY <1>1, <2>1 DEF TypeOK
    <2> QED
      BY <1>4, <1>6, <2>1 DEF Receive, ReceivePayment, ReceiveIssue, Return
  <1>7. CASE AcquirePaymentLock(s) \/ LockOwner(s)
    BY <1>4, <1>7 DEF AcquirePaymentLock, LockOwner, Keep
  <1>8. CASE FindPayment(s)
    <2>1. EarlyDecline(job[s]) # "CAPTURED"
      BY DeclineCodes DEF None
    <2> QED
      BY <1>2, <1>4, <1>5, <1>8, <2>1 DEF FindPayment, Keep
  <1>9. CASE LockCard(s)
    BY <1>4, <1>5, <1>9 DEF LockCard, Keep
  <1>10. CASE LockAccount(s)
    <2>1. HolderDecline(job[s]) # "CAPTURED"
      BY DeclineCodes DEF None
    <2> QED
      BY <1>4, <1>5, <1>10, <2>1 DEF LockAccount, Keep
  <1>11. CASE FindCard(s)
    BY <1>2, <1>4, <1>11 DEF FindCard, Keep
  <1>12. CASE SaveCard(s)
    BY <1>1, <1>12, SumsKept, CreditFinish DEF SaveCard, CreditInv
  <1>13. CASE Crash(s)
    BY <1>2, <1>13 DEF Crash
  <1> QED
    BY <1>6, <1>7, <1>8, <1>9, <1>10, <1>11, <1>12, <1>13

\* Nothing is captured at first.
LEMMA InitCreditInv == Init => CreditInv
  <1> SUFFICES ASSUME Init PROVE CreditInv
    OBVIOUS
  <1>1. \A a \in Accounts : CreditTaken(a) = {} /\ used[a] = 0
    BY DEF Init, CardInit, CreditTaken, NoPayment, None
  <1>2. IsFiniteSet({}) /\ Sum(Amounts, {}) = 0
    BY FS_EmptySet, SumEquation
  <1>3. \A s \in Sessions : HoldsLine(s)
    BY DEF Init, CardInit, HoldsLine
  <1> QED
    BY <1>1, <1>2, <1>3 DEF CreditInv, LineSums

LEMMA NextCreditInv == IInv /\ CreditInv /\ [Next]_vars => CreditInv'
  <1> SUFFICES ASSUME IInv, CreditInv, [Next]_vars PROVE CreditInv'
    OBVIOUS
  <1>1. CASE UNCHANGED vars
    BY <1>1, SumsKept DEF vars, cardVars, CreditInv, HoldsLine
  <1>2. ASSUME NEW s \in Sessions, Receive(s) \/ Step(s) \/ Crash(s) \/ Return(s) PROVE CreditInv'
    BY <1>2, CreditLineStep, CreditCommitStep, CreditOtherStep DEF Step, WaitStep
  <1> QED
    BY <1>1, <1>2 DEF Next

\* Over any number of retries, conflicts, crashes and sessions, and for any
\* limit, a captured payment takes its amount exactly once, from the account's
\* balance or from its credit line, and any other payment takes nothing.
THEOREM CapturesAreTakenOnce == Spec => []CapturedOnce
  <1>1. IInv /\ CreditInv => CapturedOnce
    <2> SUFFICES ASSUME IInv, CreditInv, NEW a \in Accounts
                 PROVE  used[a] = MapThenSumSet(LAMBDA p : payments[p].request.amount,
                                                CreditTaken(a))
      BY DEF IInv, CapturedOnce
    <2>1. CreditTaken(a) \in SUBSET PaymentIds
      BY DEF CreditTaken
    <2> QED
      BY <2>1, AmountsSum DEF CreditInv, LineSums
  <1>2. Spec => []CreditInv
    BY InitCreditInv, NextCreditInv, Invariance, PTL DEF Spec
  <1> QED
    BY <1>1, <1>2, Invariance, PTL

-----------------------------------------------------------------------------
(* The issuer's promise *)

Calls == [t \in Sessions |-> IssuerCall(t)]

\* Which requests count as payments.
LEMMA PaymentsHaveIds ==
    /\ \A r \in Payments : "id" \in DOMAIN r
    /\ \A j \in IssueRequest \cup {NoJob} : "id" \notin DOMAIN j
  <1>1. \A r \in Payments : "id" \in DOMAIN r
    BY CardAssumption DEF PaymentRequest
  <1>2. \A j \in IssueRequest \cup {NoJob} : "id" \notin DOMAIN j
    BY DEF IssueRequest, NoJob
  <1> QED
    BY <1>1, <1>2

\* A step of session s is seen in its own call only.
LEMMA OwnCall ==
    ASSUME TypeOK, TypeOK', NEW s \in Sessions,
           \A t \in Sessions \ {s} :
              at'[t] = at[t] /\ job'[t] = job[t] /\ answer'[t] = answer[t]
    PROVE  Calls' = [Calls EXCEPT ![s] = IssuerCall(s)']
  <1>1. \A t \in Sessions \ {s} : IssuerCall(t)' = IssuerCall(t)
    BY DEF IssuerCall
  <1> QED
    BY <1>1 DEF Calls

\* What Finish tells.
LEMMA FinishedCall ==
    ASSUME TypeOK, NEW s \in Sessions, Busy(s), NEW a, Finish(s, a)
    PROVE  /\ at[s] \in PaymentSteps =>
                 IssuerCall(s) = Issuer!Asked(job[s]) /\ IssuerCall(s)' = Issuer!Told(a)
           /\ at[s] \in IssueSteps => IssuerCall(s) = Issuer!Free /\ IssuerCall(s)' = Issuer!Free
           /\ \A t \in Sessions \ {s} :
                 at'[t] = at[t] /\ job'[t] = job[t] /\ answer'[t] = answer[t]
  <1>1. at'[s] = "done" /\ answer'[s] = a /\ job' = job
    BY DEF Finish, GoTo, TypeOK
  <1>2. CASE at[s] \in PaymentSteps
    <2>1. "id" \in DOMAIN job[s] /\ "done" \notin PaymentSteps
      BY <1>2, JobTypes, PaymentsHaveIds DEF PaymentSteps
    <2>2. at[s] \notin IssueSteps
      BY <1>2 DEF PaymentSteps, IssueSteps
    <2> QED
      BY <1>1, <1>2, <2>1, <2>2 DEF IssuerCall, Issuer!Asked, Issuer!Told, Finish, GoTo, TypeOK
  <1>3. CASE at[s] \in IssueSteps
    <2>1. "id" \notin DOMAIN job[s] /\ "done" \notin PaymentSteps
      BY <1>3, JobTypes, PaymentsHaveIds DEF PaymentSteps
    <2>2. at[s] \notin PaymentSteps /\ at[s] # "done"
      BY <1>3 DEF PaymentSteps, IssueSteps
    <2> QED
      BY <1>1, <1>3, <2>1, <2>2 DEF IssuerCall, Issuer!Free, Finish, GoTo, TypeOK
  <1> QED
    BY <1>2, <1>3 DEF Busy

\* What a caller sees of a session that goes on: nothing.
LEMMA SilentStep ==
    ASSUME TypeOK, TypeOK', NEW s \in Sessions, NEW step, GoTo(s, step),
           UNCHANGED <<job, answer, payments>>,
           \/ at[s] \in PaymentSteps /\ step \in PaymentSteps
           \/ at[s] \in IssueSteps /\ step \in IssueSteps
    PROVE  UNCHANGED <<payments, Calls>>
  <1>1. at'[s] = step /\ \A t \in Sessions \ {s} : at'[t] = at[t]
    BY DEF GoTo, TypeOK
  <1>2. at[s] # "done" /\ step # "done"
    BY DEF PaymentSteps, IssueSteps
  <1>3. at[s] \in PaymentSteps <=> step \in PaymentSteps
    BY DEF PaymentSteps, IssueSteps
  <1>4. IssuerCall(s)' = IssuerCall(s)
    BY <1>1, <1>2, <1>3 DEF IssuerCall
  <1>5. \A t \in Sessions \ {s} : IssuerCall(t)' = IssuerCall(t)
    BY <1>1 DEF IssuerCall
  <1> QED
    BY <1>4, <1>5 DEF Calls

\* A session that issues a card is free throughout, to the issuer's callers.
LEMMA IssueEnds ==
    ASSUME TypeOK, TypeOK', NEW s \in Sessions, at[s] \in IssueSteps, NEW a, Finish(s, a),
           UNCHANGED payments
    PROVE  UNCHANGED <<payments, Calls>>
  <1>1. Busy(s)
    BY DEF Busy
  <1>2. Calls' = [Calls EXCEPT ![s] = IssuerCall(s)']
    BY <1>1, FinishedCall, OwnCall
  <1>3. IssuerCall(s)' = Calls[s]
    BY <1>1, FinishedCall DEF Calls
  <1> QED
    BY <1>2, <1>3 DEF Calls

\* A payment that ends without a decision of its own.
LEMMA PaymentEnds ==
    ASSUME TypeOK, TypeOK', NEW s \in Sessions, at[s] \in PaymentSteps, NEW a, Finish(s, a)
    PROVE  Calls[s] = Issuer!Asked(job[s]) /\ Calls' = [Calls EXCEPT ![s] = Issuer!Told(a)]
  <1>1. Busy(s)
    BY DEF Busy
  <1>2. Calls' = [Calls EXCEPT ![s] = IssuerCall(s)']
    BY <1>1, FinishedCall, OwnCall
  <1> QED
    BY <1>1, <1>2, FinishedCall DEF Calls

\* The request that arrives is asked; issuing a card is not a question.
LEMMA ReceiveMaps ==
    ASSUME TypeOK, TypeOK', NEW s \in Sessions, Receive(s)
    PROVE  Issuer!IssuerNext \/ UNCHANGED <<payments, Calls>>
  <1>1. /\ at[s] = "idle" /\ payments' = payments
        /\ \A t \in Sessions \ {s} :
              at'[t] = at[t] /\ job'[t] = job[t] /\ answer'[t] = answer[t]
    BY DEF Receive, ReceivePayment, ReceiveIssue, GoTo, TypeOK
  <1>2. Calls[s] = Issuer!Free
    BY <1>1 DEF Calls, IssuerCall, Issuer!Free, PaymentSteps
  <1>3. Calls' = [Calls EXCEPT ![s] = IssuerCall(s)']
    BY <1>1, OwnCall
  <1>4. ASSUME NEW r \in Payments, ReceivePayment(s, r) PROVE Issuer!Ask(s, r)
    <2>1. at'[s] = "advisory" /\ job'[s] = r
      BY <1>4 DEF ReceivePayment, GoTo, TypeOK
    <2>2. IssuerCall(s)' = Issuer!Asked(r)
      BY <2>1 DEF IssuerCall, PaymentSteps, Issuer!Asked
    <2> QED
      BY <1>1, <1>2, <1>3, <2>2 DEF Issuer!Ask, Calls
  <1>5. ASSUME NEW c \in CardKeys, ReceiveIssue(s, c) PROVE Calls' = Calls
    <2>1. at'[s] = "lockOwner"
      BY <1>5 DEF ReceiveIssue, GoTo, TypeOK
    <2>2. IssuerCall(s)' = Calls[s]
      BY <1>2, <2>1 DEF IssuerCall, PaymentSteps, Issuer!Free
    <2> QED
      BY <1>3, <2>2 DEF Calls
  <1> QED
    BY <1>1, <1>4, <1>5 DEF Receive, Issuer!IssuerNext

\* The answer of a payment is forgotten.
LEMMA ReturnMaps ==
    ASSUME TypeOK, TypeOK', NEW s \in Sessions, Return(s)
    PROVE  Issuer!IssuerNext \/ UNCHANGED <<payments, Calls>>
  <1>1. /\ at[s] = "done" /\ at'[s] = "idle" /\ payments' = payments
        /\ \A t \in Sessions \ {s} :
              at'[t] = at[t] /\ job'[t] = job[t] /\ answer'[t] = answer[t]
    BY DEF Return, GoTo, TypeOK
  <1>2. IssuerCall(s)' = Issuer!Free
    BY <1>1 DEF IssuerCall, Issuer!Free, PaymentSteps
  <1>3. Calls' = [Calls EXCEPT ![s] = Issuer!Free]
    BY <1>1, <1>2, OwnCall
  <1>4. CASE "id" \in DOMAIN job[s]
    <2>1. Calls[s].state = "told"
      BY <1>1, <1>4 DEF Calls, IssuerCall, PaymentSteps
    <2>2. Issuer!Forget(s)
      BY <1>1, <1>3, <2>1 DEF Issuer!Forget, Calls
    <2> QED
      BY <2>2 DEF Issuer!IssuerNext
  <1>5. CASE "id" \notin DOMAIN job[s]
    <2>1. Calls[s] = Issuer!Free
      BY <1>1, <1>5 DEF Calls, IssuerCall, PaymentSteps, Issuer!Free
    <2> QED
      BY <1>1, <1>3, <2>1 DEF Calls
  <1> QED
    BY <1>4, <1>5

\* The dead process gives no answer; to a session that issues, nobody listens.
LEMMA CrashMaps ==
    ASSUME TypeOK, TypeOK', NEW s \in Sessions, Crash(s)
    PROVE  Issuer!IssuerNext \/ UNCHANGED <<payments, Calls>>
  <1>1. Finish(s, "ERROR") /\ payments' = payments
    BY DEF Crash, Rollback
  <1>2. CASE at[s] \in IssueSteps
    BY <1>1, <1>2, IssueEnds
  <1>3. CASE at[s] \in PaymentSteps
    <2>1. Calls[s] = Issuer!Asked(job[s]) /\ Calls' = [Calls EXCEPT ![s] = Issuer!Told("ERROR")]
      BY <1>1, <1>3, PaymentEnds
    <2>2. Calls[s].state = "asked"
      BY <2>1 DEF Issuer!Asked
    <2>3. Issuer!Break(s)
      BY <1>1, <2>1, <2>2 DEF Issuer!Break, Issuer!Answer, Calls
    <2> QED
      BY <2>3 DEF Issuer!IssuerNext
  <1> QED
    BY <1>2, <1>3 DEF Crash, Busy

\* The decision of a payment that has none, or the one it has.
LEMMA FindMaps ==
    ASSUME TypeOK, TypeOK', NEW s \in Sessions, FindPayment(s)
    PROVE  Issuer!IssuerNext \/ UNCHANGED <<payments, Calls>>
  <1>1. at[s] = "findPayment" /\ at[s] \in PaymentSteps
    BY DEF FindPayment, PaymentSteps
  <1>2. PICK r \in Payments : r = job[s]
    BY <1>1, JobTypes
  <1>3. ASSUME NEW a, Decided(r.id), Rollback(s, a),
               \/ payments[r.id].request = r /\ a = payments[r.id].decision
               \/ payments[r.id].request # r /\ a = "CONFLICT"
        PROVE  Issuer!IssuerNext
    <2>1. Finish(s, a) /\ payments' = payments
      BY <1>3 DEF Rollback
    <2>2. Calls[s] = Issuer!Asked(r) /\ Calls' = [Calls EXCEPT ![s] = Issuer!Told(a)]
      BY <1>1, <1>2, <2>1, PaymentEnds
    <2>3. Calls[s].state = "asked" /\ Calls[s].request = r
      BY <2>2 DEF Issuer!Asked
    <2>4. Issuer!Answer(s, a)
      BY <2>2 DEF Issuer!Answer, Calls
    <2>5. Issuer!Repeat(s)
      BY <1>3, <2>1, <2>3, <2>4 DEF Issuer!Repeat, Calls, Decided
    <2> QED
      BY <2>5 DEF Issuer!IssuerNext, Issuer!Decide
  <1>4. ASSUME NEW step \in PaymentSteps, GoTo(s, step), Keep
        PROVE  UNCHANGED <<payments, Calls>>
    BY <1>1, <1>4, SilentStep DEF Keep
  <1>5. "commit" \in PaymentSteps /\ "lockCard" \in PaymentSteps
    BY DEF PaymentSteps
  <1> QED
    BY <1>2, <1>3, <1>4, <1>5 DEF FindPayment, Decide

\* The COMMIT takes the decision.
LEMMA CommitMaps ==
    ASSUME IInv, IInv', NEW s \in Sessions, CommitPayment(s)
    PROVE  Issuer!IssuerNext
  <1>1. /\ TypeOK /\ TypeOK' /\ at[s] = "commit" /\ at[s] \in PaymentSteps
        /\ Finish(s, decision[s])
    BY DEF IInv, CommitPayment, PaymentSteps
  <1>2. PICK r \in Payments : r = job[s]
    BY <1>1, JobTypes
  <1>3. payments[r.id] = NoPayment /\ decision[s] \in Decisions
    BY <1>1, <1>2 DEF IInv, SessionInv, PayInv, CaptureInv, Paying, Deciding
  <1>4. Calls[s] = Issuer!Asked(r) /\ Calls' = [Calls EXCEPT ![s] = Issuer!Told(decision[s])]
    BY <1>1, <1>2, PaymentEnds
  <1>5. Calls[s].state = "asked" /\ Calls[s].request = r
    BY <1>4 DEF Issuer!Asked
  <1>6. payments' = [payments EXCEPT ![r.id] = [request |-> r, decision |-> decision[s]]]
    BY <1>2 DEF CommitPayment
  <1>7. Issuer!Answer(s, decision[s])
    BY <1>4 DEF Issuer!Answer, Calls
  <1>8. Issuer!Authorize(s, decision[s])
    BY <1>3, <1>5, <1>6, <1>7 DEF Issuer!Authorize, Calls
  <1> QED
    BY <1>3, <1>8 DEF Issuer!IssuerNext, Issuer!Decide

\* Every other statement is invisible.
LEMMA StatementMaps ==
    ASSUME TypeOK, TypeOK', NEW s \in Sessions, WaitStep(s) \/ FindCard(s) \/ SaveCard(s)
    PROVE  UNCHANGED <<payments, Calls>>
  <1>1. ASSUME NEW step, GoTo(s, step), Keep,
               \/ at[s] \in PaymentSteps /\ step \in PaymentSteps
               \/ at[s] \in IssueSteps /\ step \in IssueSteps
        PROVE  UNCHANGED <<payments, Calls>>
    BY <1>1, SilentStep DEF Keep
  <1>2. CASE WaitStep(s)
    <2>1. CASE AcquirePaymentLock(s)
      BY <1>1, <2>1 DEF AcquirePaymentLock, PaymentSteps
    <2>2. CASE LockCard(s)
      BY <1>1, <2>2 DEF LockCard, Decide, PaymentSteps
    <2>3. CASE LockAccount(s)
      BY <1>1, <2>3 DEF LockAccount, Decide, PaymentSteps
    <2>4. CASE LockLine(s)
      BY <1>1, <2>4 DEF LockLine, Decide, PaymentSteps
    <2>5. CASE LockOwner(s)
      BY <1>1, <2>5 DEF LockOwner, IssueSteps
    <2> QED
      BY <1>2, <2>1, <2>2, <2>3, <2>4, <2>5 DEF WaitStep
  <1>3. CASE FindCard(s)
    <2>1. at[s] \in IssueSteps /\ "saveCard" \in IssueSteps
      BY <1>3 DEF FindCard, IssueSteps
    <2>2. CASE GoTo(s, "saveCard") /\ Keep
      BY <1>1, <2>1, <2>2
    <2>3. CASE Rollback(s, "ERROR")
      BY <2>1, <2>3, IssueEnds DEF Rollback
    <2> QED
      BY <1>3, <2>2, <2>3 DEF FindCard
  <1>4. CASE SaveCard(s)
    <2>1. at[s] \in IssueSteps /\ Finish(s, "ISSUED") /\ payments' = payments
      BY <1>4 DEF SaveCard, IssueSteps
    <2> QED
      BY <2>1, IssueEnds
  <1> QED
    BY <1>2, <1>3, <1>4

\* Every step of the issuer is a step of its promise, or invisible.
LEMMA StepMaps ==
    ASSUME IInv, IInv', [Next]_vars
    PROVE  [Issuer!IssuerNext]_(Issuer!issuerVars)
  <1> USE DEF IInv
  <1>1. CASE UNCHANGED vars
    <2>1. UNCHANGED <<payments, Calls>>
      BY <1>1 DEF vars, cardVars, Calls, IssuerCall
    <2> QED
      BY <2>1 DEF Issuer!issuerVars, Calls
  <1>2. ASSUME NEW s \in Sessions, Receive(s) \/ Step(s) \/ Crash(s) \/ Return(s)
        PROVE  Issuer!IssuerNext \/ UNCHANGED <<payments, Calls>>
    BY <1>2, ReceiveMaps, ReturnMaps, CrashMaps, FindMaps, CommitMaps, StatementMaps DEF Step
  <1> QED
    BY <1>1, <1>2 DEF Next, Issuer!issuerVars, Calls

LEMMA InitMaps == Init => Issuer!IssuerInit
  BY DEF Init, CardInit, IssuerCall, PaymentSteps, Issuer!IssuerInit, Issuer!Free

\* Statement by statement, for any number of sessions and payments and with a
\* crash at any point, the issuer keeps the promise its callers are built on.
THEOREM IssuerImplementsPromise == Spec => ImplementsIssuer
  BY InitMaps, StepMaps, Invariance, PTL DEF Spec, ImplementsIssuer, Issuer!IssuerSpec
=============================================================================
