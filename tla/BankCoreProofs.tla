---------------------------- MODULE BankCoreProofs ----------------------------
(***************************************************************************)
(* account-service as one program, for any accounts, sessions, keys and    *)
(* payments: however the transactions of its two services interleave, die  *)
(* and repeat, money is conserved and the ledger agrees with the balances. *)
(*                                                                         *)
(* BankInv holds what each service needs of the rows it shares with the    *)
(* other: a session that has computed a balance holds the row it computed  *)
(* it from, and the step of another session spares it (Spares).  LocksInv  *)
(* is the order in which both take their locks.                            *)
(***************************************************************************)
EXTENDS BankCore, FiniteSums

\* What has left the accounts by card is what they miss.
Books == Sum(OpeningBalance, Accounts) = Sum(balance, Accounts) + Sum(moved, PaymentIds)

StoreInv == StoreTypeOK /\ NoDivergentAccount /\ Books

(* A session of AccountService *)

\* It carries a key, and a valid movement once transfer's checks passed or the
\* original was read.
ValidDraft(t) ==
    /\ T!Serving(t) => key[t] \in T!KeyIds
    /\ pc[t] \in {"findReversal", "findPrior", "findOriginal"} =>
          draft[t].reversalOf \in T!KeyIds
    /\ pc[t] \in {"existsById", "lockFirst", "lockSecond", "apply", "commit"} =>
          draft[t].source # draft[t].destination /\ draft[t].amount > 0

\* It holds the rows it has loaded, and has computed from what they hold.
HoldsItsRows(t) ==
    LET r == draft[t]
        first == T!FirstId(r)
    IN /\ pc[t] = "lockSecond" =>
             first \in Accounts /\ rowLock[first] = t /\ entity[t][first] = balance[first]
       /\ pc[t] \in {"apply", "commit"} =>
             /\ r.source \in Accounts /\ r.destination \in Accounts
             /\ rowLock[r.source] = t /\ rowLock[r.destination] = t
       /\ pc[t] = "apply" =>
             entity[t][r.source] = balance[r.source]
             /\ entity[t][r.destination] = balance[r.destination]
       /\ pc[t] = "commit" =>
             /\ balance[r.source] >= r.amount
             /\ entity[t][r.source] = balance[r.source] - r.amount
             /\ entity[t][r.destination] = balance[r.destination] + r.amount

ValidRecords ==
    \A k \in T!KeyIds :
        T!Recorded(k) => transfers[k].source # transfers[k].destination /\ transfers[k].amount > 0

TransferInv ==
    /\ T!ServiceTypeOK
    /\ ValidRecords
    /\ \A t \in TransferSessions : ValidDraft(t) /\ HoldsItsRows(t)

(* A session of CardService *)

CardTypes ==
    /\ at \in [CardSessions -> C!PaymentSteps \cup C!IssueSteps \cup {"idle", "done"}]
    /\ job = [c \in CardSessions |-> job[c]]
    /\ decision = [c \in CardSessions |-> decision[c]]
    /\ loaded = [c \in CardSessions |-> loaded[c]]

\* It serves a payment, with the credit line of a credit payment only, or the
\* issue of a card.
ServesRequest(c) ==
    /\ at[c] \in C!PaymentSteps => job[c] \in Payments
    /\ at[c] \in C!IssueSteps => job[c].card \in C!CardKeys
    /\ at[c] = "lockLine" => job[c].type = "CREDIT"

\* About to debit an account, it holds the row, and the balance covers it.
HoldsDebited(c) ==
    LET r == job[c]
        a == C!Owner(r)
    IN at[c] = "commit" /\ decision[c] = "CAPTURED" /\ r.type = "DEBIT" =>
          rowLock[a] = c /\ balance[a] >= r.amount /\ loaded[c] = balance[a] - r.amount

CardInv == CardTypes /\ \A c \in CardSessions : ServesRequest(c) /\ HoldsDebited(c)

BankInv == StoreInv /\ TransferInv /\ CardInv

-----------------------------------------------------------------------------
(* Rows, sums and sessions *)

\* A step of session s writes and unlocks only rows that no other session holds.
Spares(s) ==
    \A a \in Accounts :
        rowLock[a] \in Sessions \ {s} => rowLock'[a] = rowLock[a] /\ balance'[a] = balance[a]

LEMMA SessionKinds ==
    /\ \A t \in TransferSessions : t \in Sessions /\ t \notin CardSessions /\ t # NoSession
    /\ \A c \in CardSessions : c \in Sessions /\ c \notin TransferSessions /\ c # NoSession
  BY SessionsAssumption, StoreAssumption

\* What a payment draws from.
LEMMA PaymentTypes ==
    ASSUME NEW r \in Payments
    PROVE  /\ r.id \in PaymentIds /\ r.id \in Journals
           /\ C!Owner(r) \in Accounts /\ C!Owner(r) # System
           /\ r.amount \in Nat /\ r.amount > 0
  <1>1. r \in C!PaymentRequest
    BY RequestsAssumption
  <1>2. r.card \in Accounts \X C!Types
    BY <1>1 DEF C!PaymentRequest, C!CardKeys
  <1>3. C!Owner(r) \in Accounts /\ C!Owner(r) # System
    BY <1>2, StoreAssumption DEF C!Owner, System
  <1> QED
    BY <1>1, <1>3, RequestsAssumption DEF C!PaymentRequest

\* Locks alone say nothing of money.
LEMMA StoreKept ==
    ASSUME StoreInv, UNCHANGED <<balance, ledgerOf, moved>>,
           rowLock' \in [Accounts -> Sessions \cup {NoSession}]
    PROVE  StoreInv'
  BY DEF StoreInv, StoreTypeOK, NoDivergentAccount, Books

LEMMA LockedRow ==
    ASSUME StoreInv, NEW s \in Sessions, NEW a \in Accounts,
           rowLock[a] = NoSession, rowLock' = [rowLock EXCEPT ![a] = s]
    PROVE  /\ rowLock' \in [Accounts -> Sessions \cup {NoSession}] /\ rowLock'[a] = s
           /\ \A b \in Accounts : rowLock[b] # NoSession => rowLock'[b] = rowLock[b]
  BY DEF StoreInv, StoreTypeOK

LEMMA ReleasedRows ==
    ASSUME StoreInv, NEW s \in Sessions,
           rowLock' = [a \in Accounts |-> IF rowLock[a] = s THEN NoSession ELSE rowLock[a]]
    PROVE  /\ rowLock' \in [Accounts -> Sessions \cup {NoSession}]
           /\ \A b \in Accounts : rowLock[b] \in Sessions \ {s} => rowLock'[b] = rowLock[b]
  BY DEF StoreInv, StoreTypeOK

\* The sums of the books are over finitely many numbers.
LEMMA BookTypes ==
    ASSUME StoreInv
    PROVE  /\ \A a \in Accounts : balance[a] \in Int /\ OpeningBalance[a] \in Int
           /\ \A p \in PaymentIds : p \in Journals /\ moved[p] \in Int
           /\ Sum(OpeningBalance, Accounts) \in Int
           /\ Sum(balance, Accounts) \in Int /\ Sum(moved, PaymentIds) \in Int
  <1>1. /\ \A a \in Accounts : balance[a] \in Int /\ OpeningBalance[a] \in Int
        /\ \A p \in PaymentIds : p \in Journals /\ moved[p] \in Int
    BY StoreAssumption, RequestsAssumption DEF StoreInv, StoreTypeOK
  <1> QED
    BY <1>1, IdsAssumption, SumType

\* What moves from one account to another leaves their sum as it was.
LEMMA SumOfMovement ==
    ASSUME NEW v, NEW w, NEW n \in Int, NEW a \in Accounts, NEW b \in Accounts, a # b,
           v \in [Accounts -> Int],
           w \in [Accounts -> Int], w[a] = v[a] - n, w[b] = v[b] + n,
           \A x \in Accounts \ {a, b} : w[x] = v[x]
    PROVE  Sum(w, Accounts) = Sum(v, Accounts)
  <1>1. PICK u \in [Accounts -> Int] :
           u[a] = v[a] - n /\ \A x \in Accounts \ {a} : u[x] = v[x]
    <2> WITNESS [v EXCEPT ![a] = v[a] - n] \in [Accounts -> Int]
    <2> QED
      OBVIOUS
  <1>2. Sum(u, Accounts) = Sum(v, Accounts) + (u[a] - v[a])
    BY <1>1, IdsAssumption, SumChangedAt
  <1>3. \A x \in Accounts \ {b} : w[x] = u[x]
    BY <1>1
  <1>4. Sum(w, Accounts) = Sum(u, Accounts) + (w[b] - u[b])
    BY <1>3, IdsAssumption, SumChangedAt
  <1>5. Sum(v, Accounts) \in Int
    BY IdsAssumption, SumType
  <1>6. u[a] - v[a] = -n /\ w[b] - u[b] = n
    <2>1. v[a] \in Int /\ v[b] \in Int /\ u[b] = v[b]
      BY <1>1
    <2>2. \A i \in Int : (i - n) - i = -n /\ (i + n) - i = n
      OBVIOUS
    <2> QED
      BY <1>1, <2>1, <2>2
  <1>7. \A i \in Int : (i + (-n)) + n = i
    OBVIOUS
  <1> QED
    BY <1>2, <1>4, <1>5, <1>6, <1>7

-----------------------------------------------------------------------------
(* Sessions do not disturb each other *)

LEMMA SparedTransfer ==
    ASSUME TransferInv, NEW s \in Sessions, NEW t \in TransferSessions, t # s, Spares(s),
           pc'[t] = pc[t], key'[t] = key[t], draft'[t] = draft[t], entity'[t] = entity[t]
    PROVE  ValidDraft(t)' /\ HoldsItsRows(t)'
  <1>1. ValidDraft(t)'
    BY DEF TransferInv, ValidDraft, T!Serving
  <1>2. t \in Sessions \ {s} /\ HoldsItsRows(t)
    BY SessionKinds DEF TransferInv
  <1>3. HoldsItsRows(t)'
    BY <1>2 DEF HoldsItsRows, Spares, T!FirstId
  <1> QED
    BY <1>1, <1>3

LEMMA SparedCard ==
    ASSUME CardInv, NEW s \in Sessions, NEW c \in CardSessions, c # s, Spares(s),
           at'[c] = at[c], job'[c] = job[c], decision'[c] = decision[c], loaded'[c] = loaded[c]
    PROVE  ServesRequest(c)' /\ HoldsDebited(c)'
  <1>1. ServesRequest(c)'
    BY DEF CardInv, ServesRequest
  <1>2. CASE at[c] = "commit"
    <2>1. job[c] \in Payments
      BY <1>2 DEF CardInv, ServesRequest, C!PaymentSteps
    <2>2. C!Owner(job[c]) \in Accounts /\ c \in Sessions \ {s} /\ HoldsDebited(c)
      BY <2>1, PaymentTypes, SessionKinds DEF CardInv
    <2>3. HoldsDebited(c)'
      BY <2>2 DEF HoldsDebited, Spares
    <2> QED
      BY <1>1, <2>3
  <1>3. CASE at[c] # "commit"
    BY <1>1, <1>3 DEF HoldsDebited
  <1> QED
    BY <1>2, <1>3

\* Enough to show of a step of AccountService.
LEMMA TransferCarries ==
    ASSUME BankInv, NEW s \in TransferSessions, UNCHANGED cardVars, Spares(s),
           \A t \in TransferSessions \ {s} :
              /\ pc'[t] = pc[t] /\ key'[t] = key[t]
              /\ draft'[t] = draft[t] /\ entity'[t] = entity[t],
           StoreInv', T!ServiceTypeOK', ValidRecords', ValidDraft(s)', HoldsItsRows(s)'
    PROVE  BankInv'
  <1>1. \A t \in TransferSessions \ {s} : ValidDraft(t)' /\ HoldsItsRows(t)'
    BY SparedTransfer, SessionKinds DEF BankInv
  <1>2. \A c \in CardSessions : c # s /\ ServesRequest(c)' /\ HoldsDebited(c)'
    BY SparedCard, SessionKinds DEF BankInv, cardVars
  <1>3. CardTypes'
    BY DEF BankInv, CardInv, CardTypes, cardVars
  <1> QED
    BY <1>1, <1>2, <1>3 DEF BankInv, TransferInv, CardInv

\* Enough to show of a step of CardService.
LEMMA CardCarries ==
    ASSUME BankInv, NEW s \in CardSessions, UNCHANGED transferVars, Spares(s),
           \A c \in CardSessions \ {s} :
              /\ at'[c] = at[c] /\ job'[c] = job[c]
              /\ decision'[c] = decision[c] /\ loaded'[c] = loaded[c],
           StoreInv', CardTypes', ServesRequest(s)', HoldsDebited(s)'
    PROVE  BankInv'
  <1>1. \A c \in CardSessions \ {s} : ServesRequest(c)' /\ HoldsDebited(c)'
    BY SparedCard, SessionKinds DEF BankInv
  <1>2. \A t \in TransferSessions : t # s /\ ValidDraft(t)' /\ HoldsItsRows(t)'
    BY SparedTransfer, SessionKinds DEF BankInv, transferVars
  <1>3. T!ServiceTypeOK' /\ ValidRecords'
    BY DEF BankInv, TransferInv, T!ServiceTypeOK, ValidRecords, T!Recorded, transferVars
  <1> QED
    BY <1>1, <1>2, <1>3 DEF BankInv, TransferInv, CardInv

-----------------------------------------------------------------------------
(* The steps of AccountService *)

\* A statement that neither waits nor writes rows.
LEMMA TransferQuiet ==
    ASSUME BankInv, NEW s \in TransferSessions, UNCHANGED <<cardVars, storeVars, transfers>>,
           \A t \in TransferSessions \ {s} :
              /\ pc'[t] = pc[t] /\ key'[t] = key[t]
              /\ draft'[t] = draft[t] /\ entity'[t] = entity[t],
           T!ServiceTypeOK', ValidDraft(s)', HoldsItsRows(s)'
    PROVE  BankInv'
  <1>1. Spares(s) /\ StoreInv'
    BY StoreKept DEF Spares, storeVars, BankInv, StoreInv, StoreTypeOK
  <1>2. ValidRecords'
    BY DEF BankInv, TransferInv, ValidRecords, T!Recorded
  <1> QED
    BY <1>1, <1>2, TransferCarries

\* Until it has loaded a row, a session holds none.
LEMMA HoldsNoRows ==
    ASSUME NEW t \in TransferSessions, pc'[t] \notin {"lockSecond", "apply", "commit"}
    PROVE  HoldsItsRows(t)'
  BY DEF HoldsItsRows

\* A transaction that ends without writing.
LEMMA TransferRollback ==
    ASSUME BankInv, NEW s \in TransferSessions, NEW reason \in T!Replies,
           T!Rollback(s, reason), UNCHANGED cardVars
    PROVE  BankInv'
  <1> USE DEF T!Rollback, T!Finish, T!GoTo
  <1>1. T!ServiceTypeOK /\ StoreInv /\ s \in Sessions
    BY SessionKinds DEF BankInv, TransferInv
  <1>2. rowLock' = [a \in Accounts |-> IF rowLock[a] = s THEN NoSession ELSE rowLock[a]]
    BY DEF T!ReleaseRows
  <1>3. Spares(s) /\ StoreInv'
    BY <1>1, <1>2, ReleasedRows, StoreKept DEF Spares
  <1>4. T!NoRecord \in T!TransferRecord /\ T!NoEntity \in [Accounts -> Int]
    BY DEF T!NoRecord, T!TransferRecord, T!NoEntity
  <1>5. T!ServiceTypeOK'
    BY <1>1, <1>4 DEF T!ServiceTypeOK, T!Statements
  <1>6. pc'[s] = "done"
        /\ \A t \in TransferSessions \ {s} :
              /\ pc'[t] = pc[t] /\ key'[t] = key[t]
              /\ draft'[t] = draft[t] /\ entity'[t] = entity[t]
    BY <1>1 DEF T!ServiceTypeOK
  <1>7. ValidDraft(s)' /\ HoldsItsRows(s)'
    BY <1>6, HoldsNoRows DEF ValidDraft, T!Serving, T!Statements
  <1>8. ValidRecords'
    BY DEF BankInv, TransferInv, ValidRecords, T!Recorded
  <1> QED
    BY <1>3, <1>5, <1>6, <1>7, <1>8, TransferCarries

\* A read that finds nothing only moves the session on.
LEMMA TransferProceed ==
    ASSUME BankInv, NEW s \in TransferSessions, NEW statement, T!Proceed(s, statement),
           UNCHANGED cardVars,
           \/ pc[s] = "existsById" /\ statement = "lockFirst"
           \/ pc[s] = "findReversal" /\ statement = "findPrior"
           \/ pc[s] = "findPrior" /\ statement = "findOriginal"
    PROVE  BankInv'
  <1>1. T!ServiceTypeOK /\ ValidDraft(s)
    BY DEF BankInv, TransferInv
  <1>2. /\ pc' = [pc EXCEPT ![s] = statement] /\ statement \in T!Statements
        /\ UNCHANGED <<storeVars, transfers, key, draft, entity, found, reply, overlapped>>
    BY DEF T!Proceed, T!GoTo, T!Statements, T!storeVars, storeVars
  <1>3. T!ServiceTypeOK'
    BY <1>1, <1>2 DEF T!ServiceTypeOK
  <1>4. pc'[s] = statement /\ \A t \in TransferSessions \ {s} : pc'[t] = pc[t]
    BY <1>1, <1>2 DEF T!ServiceTypeOK
  <1>5. ValidDraft(s)'
    BY <1>1, <1>2, <1>4 DEF ValidDraft, T!Serving, T!Statements
  <1>6. HoldsItsRows(s)'
    BY <1>4, HoldsNoRows
  <1> QED
    BY <1>2, <1>3, <1>4, <1>5, <1>6, TransferQuiet

\* A request arrives, or the answer of the last one leaves.
LEMMA TransferRequestStep ==
    ASSUME BankInv, NEW s \in TransferSessions, T!Receive(s) \/ T!Return(s), UNCHANGED cardVars
    PROVE  BankInv'
  <1>1. T!ServiceTypeOK
    BY DEF BankInv, TransferInv
  <1> USE <1>1 DEF T!ServiceTypeOK, T!GoTo
  <1>2. ASSUME NEW r \in Transfers, T!ReceiveTransfer(s, r) PROVE BankInv'
    <2> USE <1>2 DEF T!ReceiveTransfer
    <2>1. r.id \in T!KeyIds /\ r.source \in Nat /\ r.destination \in Nat /\ r.amount \in Int
      BY RequestsAssumption DEF T!TransferRequest, T!KeyIds
    <2>2. UNCHANGED <<storeVars, transfers, entity, found>>
      BY DEF T!storeVars, storeVars
    <2>3. [source |-> r.source, destination |-> r.destination, amount |-> r.amount,
           reversalOf |-> NoId] \in T!TransferRecord
      BY <2>1 DEF T!TransferRecord
    <2>4. T!ServiceTypeOK'
      BY <2>1, <2>2, <2>3 DEF T!Statements, T!Replies, T!Overlap
    <2>5. /\ pc'[s] \in {"existsById", "done"} /\ key'[s] = r.id
          /\ pc'[s] = "existsById" => draft'[s].source # draft'[s].destination
                                      /\ draft'[s].amount > 0
          /\ \A t \in TransferSessions \ {s} :
                /\ pc'[t] = pc[t] /\ key'[t] = key[t]
                /\ draft'[t] = draft[t] /\ entity'[t] = entity[t]
      OBVIOUS
    <2>6. ValidDraft(s)' /\ HoldsItsRows(s)'
      BY <2>1, <2>5, HoldsNoRows DEF ValidDraft, T!Serving, T!Statements
    <2> QED
      BY <2>2, <2>4, <2>5, <2>6, TransferQuiet
  <1>3. ASSUME NEW id \in ReversalIds, NEW of \in T!KeyIds, T!ReceiveReversal(s, id, of)
        PROVE  BankInv'
    <2> USE <1>3 DEF T!ReceiveReversal
    <2>1. UNCHANGED <<storeVars, transfers, entity, found, reply>> /\ id \in T!KeyIds
      BY DEF T!storeVars, storeVars, T!KeyIds
    <2>2. [T!NoRecord EXCEPT !.reversalOf = of] \in T!TransferRecord
          /\ [T!NoRecord EXCEPT !.reversalOf = of].reversalOf = of
      BY DEF T!TransferRecord, T!NoRecord
    <2>3. T!ServiceTypeOK'
      BY <2>1, <2>2 DEF T!Statements, T!Overlap
    <2>4. /\ pc'[s] = "findReversal" /\ key'[s] = id /\ draft'[s].reversalOf = of
          /\ \A t \in TransferSessions \ {s} :
                /\ pc'[t] = pc[t] /\ key'[t] = key[t]
                /\ draft'[t] = draft[t] /\ entity'[t] = entity[t]
      BY <2>2
    <2>5. ValidDraft(s)' /\ HoldsItsRows(s)'
      BY <2>1, <2>4, HoldsNoRows DEF ValidDraft, T!Serving, T!Statements
    <2> QED
      BY <2>1, <2>3, <2>4, <2>5, TransferQuiet
  <1>4. CASE T!Return(s)
    <2> USE <1>4 DEF T!Return
    <2>1. UNCHANGED <<storeVars, transfers, draft, entity, found, overlapped>>
      BY DEF T!storeVars, storeVars
    <2>2. T!ServiceTypeOK'
      BY <2>1 DEF T!Replies
    <2>3. /\ pc'[s] = "idle"
          /\ \A t \in TransferSessions \ {s} :
                /\ pc'[t] = pc[t] /\ key'[t] = key[t]
                /\ draft'[t] = draft[t] /\ entity'[t] = entity[t]
      BY <2>1
    <2>4. ValidDraft(s)' /\ HoldsItsRows(s)'
      BY <2>3, HoldsNoRows DEF ValidDraft, T!Serving, T!Statements
    <2> QED
      BY <2>1, <2>2, <2>3, <2>4, TransferQuiet
  <1> QED
    BY <1>2, <1>3, <1>4 DEF T!Receive

\* The draft of a reversal is valid because the stored original is.
LEMMA TransferFindOriginal ==
    ASSUME BankInv, NEW s \in TransferSessions, T!FindOriginal(s), UNCHANGED cardVars
    PROVE  BankInv'
  <1> DEFINE of == draft[s].reversalOf
             original == transfers[of]
             swapped == [source |-> original.destination, destination |-> original.source,
                         amount |-> original.amount, reversalOf |-> of]
  <1>1. CASE T!Rollback(s, "NOT_FOUND") \/ T!Rollback(s, "INVALID")
    BY <1>1, TransferRollback DEF T!Replies
  <1>2. CASE /\ T!Recorded(of) /\ T!GoTo(s, "lockFirst")
             /\ draft' = [draft EXCEPT ![s] = swapped]
             /\ UNCHANGED <<T!storeVars, transfers, key, entity, found, reply, overlapped>>
    <2>1. T!ServiceTypeOK /\ ValidDraft(s) /\ ValidRecords /\ pc[s] = "findOriginal"
      BY DEF BankInv, TransferInv, T!FindOriginal
    <2>2. of \in T!KeyIds /\ key[s] \in T!KeyIds
      BY <2>1 DEF ValidDraft, T!Serving, T!Statements
    <2>3. original \in T!TransferRecord /\ original.source # original.destination
          /\ original.amount > 0
      BY <1>2, <2>1, <2>2 DEF T!ServiceTypeOK, ValidRecords
    <2>4. swapped \in T!TransferRecord /\ swapped.source # swapped.destination
          /\ swapped.amount > 0
      BY <2>2, <2>3 DEF T!TransferRecord
    <2> HIDE DEF swapped
    <2>5. T!ServiceTypeOK'
      BY <1>2, <2>1, <2>4 DEF T!ServiceTypeOK, T!GoTo, T!Statements
    <2>6. /\ pc'[s] = "lockFirst" /\ draft'[s] = swapped /\ key' = key
          /\ \A t \in TransferSessions \ {s} :
                /\ pc'[t] = pc[t] /\ key'[t] = key[t]
                /\ draft'[t] = draft[t] /\ entity'[t] = entity[t]
      BY <1>2, <2>1 DEF T!ServiceTypeOK, T!GoTo
    <2>7. ValidDraft(s)' /\ HoldsItsRows(s)'
      BY <2>2, <2>4, <2>6, HoldsNoRows DEF ValidDraft
    <2>8. UNCHANGED <<storeVars, transfers>>
      BY <1>2 DEF T!storeVars, storeVars
    <2> QED
      BY <2>5, <2>6, <2>7, <2>8, TransferQuiet
  <1> QED
    BY <1>1, <1>2 DEF T!FindOriginal

\* A free row is locked and its balance loaded.
LEMMA TransferLock ==
    ASSUME BankInv, NEW s \in TransferSessions, UNCHANGED cardVars,
           NEW a \in Accounts, T!LockAndLoad(s, a),
           \/ pc[s] = "lockFirst" /\ a = T!FirstId(draft[s]) /\ T!GoTo(s, "lockSecond")
           \/ pc[s] = "lockSecond" /\ a = T!SecondId(draft[s]) /\ T!GoTo(s, "apply")
    PROVE  BankInv'
  <1> DEFINE r == draft[s]
  <1>1. T!ServiceTypeOK /\ StoreInv /\ ValidDraft(s) /\ HoldsItsRows(s) /\ s \in Sessions
    BY SessionKinds DEF BankInv, TransferInv
  <1>2. /\ rowLock[a] = NoSession /\ rowLock' = [rowLock EXCEPT ![a] = s]
        /\ entity' = [entity EXCEPT ![s][a] = balance[a]]
        /\ UNCHANGED <<balance, ledgerOf, moved, transfers, key, draft, found, reply, overlapped>>
    BY DEF T!LockAndLoad, T!LockRow
  <1>3. /\ rowLock' \in [Accounts -> Sessions \cup {NoSession}] /\ rowLock'[a] = s
        /\ \A b \in Accounts : rowLock[b] # NoSession => rowLock'[b] = rowLock[b]
    BY <1>1, <1>2, LockedRow
  <1>4. Spares(s) /\ StoreInv'
    BY <1>1, <1>2, <1>3, StoreKept, StoreAssumption DEF Spares
  <1>5. balance \in [Accounts -> Nat] /\ entity \in [TransferSessions -> [Accounts -> Int]]
        /\ pc \in [TransferSessions -> T!Statements \cup {"idle", "done"}]
        /\ pc[s] \in {"lockFirst", "lockSecond"}
    BY <1>1 DEF StoreInv, StoreTypeOK, T!ServiceTypeOK
  <1>6. /\ entity' \in [TransferSessions -> [Accounts -> Int]]
        /\ entity'[s] = [entity[s] EXCEPT ![a] = balance[a]]
        /\ \A t \in TransferSessions \ {s} : entity'[t] = entity[t]
    BY <1>2, <1>5
  <1>7. /\ pc' \in [TransferSessions -> T!Statements \cup {"idle", "done"}]
        /\ pc'[s] = IF pc[s] = "lockFirst" THEN "lockSecond" ELSE "apply"
        /\ \A t \in TransferSessions \ {s} : pc'[t] = pc[t]
    BY <1>5 DEF T!GoTo, T!Statements
  <1>8. T!ServiceTypeOK'
    BY <1>1, <1>2, <1>6, <1>7 DEF T!ServiceTypeOK
  <1>9. ValidDraft(s)'
    BY <1>1, <1>2, <1>5, <1>7 DEF ValidDraft, T!Serving, T!Statements
  <1>10. HoldsItsRows(s)'
    <2>1. CASE pc[s] = "lockFirst"
      <3>1. a = T!FirstId(r) /\ pc'[s] = "lockSecond"
        BY <1>7, <2>1
      <3>2. entity'[s][a] = balance'[a]
        BY <1>2, <1>5, <1>6
      <3> QED
        BY <1>2, <1>3, <3>1, <3>2 DEF HoldsItsRows, T!FirstId
    <2>2. CASE pc[s] = "lockSecond"
      <3> DEFINE first == T!FirstId(r)
      <3>1. a = T!SecondId(r) /\ pc'[s] = "apply" /\ r.source # r.destination
        BY <1>1, <1>7, <2>2 DEF ValidDraft
      <3>2. first \in Accounts /\ rowLock[first] = s /\ entity[s][first] = balance[first]
        BY <1>1, <2>2 DEF HoldsItsRows
      <3>3. a # first /\ {a, first} = {r.source, r.destination}
        BY <3>1 DEF T!FirstId, T!SecondId
      <3> HIDE DEF first
      <3>4. /\ rowLock'[first] = s /\ rowLock'[a] = s
            /\ entity'[s][first] = balance'[first] /\ entity'[s][a] = balance'[a]
        BY <1>2, <1>3, <1>5, <1>6, <3>2, <3>3, StoreAssumption, SessionKinds
      <3>5. \A b \in {r.source, r.destination} :
               b \in Accounts /\ rowLock'[b] = s /\ entity'[s][b] = balance'[b]
        BY <3>2, <3>3, <3>4
      <3> QED
        BY <1>2, <3>1, <3>5 DEF HoldsItsRows
    <2> QED
      BY <1>5, <2>1, <2>2
  <1>11. ValidRecords'
    BY <1>2 DEF BankInv, TransferInv, ValidRecords, T!Recorded
  <1> QED
    BY <1>2, <1>4, <1>6, <1>7, <1>8, <1>9, <1>10, <1>11, TransferCarries

\* The movement is computed from current rows, and the balance covers it.
LEMMA TransferApply ==
    ASSUME BankInv, NEW s \in TransferSessions, T!Apply(s), UNCHANGED cardVars
    PROVE  BankInv'
  <1> DEFINE r == draft[s]
  <1>1. CASE T!Rollback(s, "INSUFFICIENT_FUNDS")
    BY <1>1, TransferRollback DEF T!Replies
  <1>2. CASE /\ entity[s][r.source] >= r.amount
             /\ entity' = [entity EXCEPT ![s][r.source] = @ - r.amount,
                                         ![s][r.destination] = @ + r.amount]
             /\ found' = [found EXCEPT ![s] = T!Recorded(key[s])]
             /\ T!GoTo(s, "commit")
             /\ UNCHANGED <<T!storeVars, transfers, key, draft, reply, overlapped>>
    <2>1. T!ServiceTypeOK /\ ValidDraft(s) /\ HoldsItsRows(s) /\ pc[s] = "apply"
      BY DEF BankInv, TransferInv, T!Apply
    <2>2. /\ r.source \in Accounts /\ r.destination \in Accounts /\ r.source # r.destination
          /\ r.amount \in Int /\ entity[s] \in [Accounts -> Int]
          /\ rowLock[r.source] = s /\ rowLock[r.destination] = s
          /\ entity[s][r.source] = balance[r.source]
          /\ entity[s][r.destination] = balance[r.destination]
      BY <2>1 DEF ValidDraft, HoldsItsRows, T!ServiceTypeOK, T!TransferRecord
    <2>3. entity \in [TransferSessions -> [Accounts -> Int]]
      BY <2>1 DEF T!ServiceTypeOK
    <2>4. /\ entity'[s] = [entity[s] EXCEPT ![r.source] = entity[s][r.source] - r.amount,
                                            ![r.destination] = entity[s][r.destination] + r.amount]
          /\ \A t \in TransferSessions \ {s} : entity'[t] = entity[t]
      BY <1>2, <2>2, <2>3
    <2>5. entity' \in [TransferSessions -> [Accounts -> Int]]
      BY <1>2, <2>2, <2>3, <2>4
    <2>6. found' \in [TransferSessions -> BOOLEAN]
      BY <1>2, <2>1 DEF T!ServiceTypeOK, T!Recorded
    <2>7. /\ pc' \in [TransferSessions -> T!Statements \cup {"idle", "done"}]
          /\ pc'[s] = "commit" /\ \A t \in TransferSessions \ {s} : pc'[t] = pc[t]
      BY <1>2, <2>1 DEF T!ServiceTypeOK, T!GoTo, T!Statements
    <2>8. T!ServiceTypeOK'
      BY <1>2, <2>1, <2>5, <2>6, <2>7 DEF T!ServiceTypeOK
    <2>9. ValidDraft(s)'
      BY <1>2, <2>1, <2>7 DEF ValidDraft, T!Serving, T!Statements
    <2>10. UNCHANGED <<storeVars, transfers>>
      BY <1>2 DEF T!storeVars, storeVars
    <2>11. HoldsItsRows(s)'
      <3>1. /\ entity'[s][r.source] = balance[r.source] - r.amount
            /\ entity'[s][r.destination] = balance[r.destination] + r.amount
            /\ balance[r.source] >= r.amount
        BY <1>2, <2>2, <2>4
      <3>2. draft' = draft /\ balance' = balance /\ rowLock' = rowLock
        BY <1>2, <2>10 DEF storeVars
      <3> QED
        BY <2>2, <2>7, <3>1, <3>2 DEF HoldsItsRows
    <2> QED
      BY <1>2, <2>4, <2>7, <2>8, <2>9, <2>10, <2>11, TransferQuiet
  <1> QED
    BY <1>1, <1>2 DEF T!Apply

\* The commit writes rows that only s holds, adds to each balance what it adds
\* to the account's entries, and moves nothing out of the accounts.
LEMMA TransferCommit ==
    ASSUME BankInv, NEW s \in TransferSessions, T!Commit(s), UNCHANGED cardVars
    PROVE  BankInv'
  <1> DEFINE r == draft[s]
  <1>1. CASE T!Rollback(s, "ERROR")
    BY <1>1, TransferRollback DEF T!Replies
  <1>2. CASE /\ T!WriteBalances({r.source, r.destination}, entity[s])
             /\ T!PostEntries(key[s], r.source, r.destination, r.amount)
             /\ transfers' = [transfers EXCEPT ![key[s]] = r]
             /\ T!Finish(s, "COMPLETED")
    <2>1. /\ T!ServiceTypeOK /\ StoreInv /\ ValidDraft(s) /\ HoldsItsRows(s) /\ ValidRecords
          /\ pc[s] = "commit" /\ s \in Sessions
      BY SessionKinds DEF BankInv, TransferInv, T!Commit
    <2>2. /\ r.source \in Accounts /\ r.destination \in Accounts /\ r.source # r.destination
          /\ r \in T!TransferRecord /\ r.amount \in Int /\ r.amount > 0 /\ key[s] \in T!KeyIds
          /\ rowLock[r.source] = s /\ rowLock[r.destination] = s
          /\ balance[r.source] >= r.amount
          /\ entity[s][r.source] = balance[r.source] - r.amount
          /\ entity[s][r.destination] = balance[r.destination] + r.amount
      BY <2>1 DEF ValidDraft, HoldsItsRows, T!ServiceTypeOK, T!TransferRecord, T!Serving, T!Statements
    <2>3. /\ balance \in [Accounts -> Nat] /\ ledgerOf \in [Accounts \cup {System} -> Int]
          /\ moved \in [Journals -> Nat] /\ \A a \in Accounts : balance[a] = ledgerOf[a]
      BY <2>1 DEF StoreInv, StoreTypeOK, NoDivergentAccount
    <2>4. /\ balance' \in [Accounts -> Nat]
          /\ balance'[r.source] = balance[r.source] - r.amount
          /\ balance'[r.destination] = balance[r.destination] + r.amount
          /\ \A a \in Accounts \ {r.source, r.destination} : balance'[a] = balance[a]
      <3>1. balance' = [a \in Accounts |-> IF a \in {r.source, r.destination}
                                           THEN entity[s][a] ELSE balance[a]]
        BY <1>2 DEF T!WriteBalances
      <3>2. entity[s][r.source] \in Nat /\ entity[s][r.destination] \in Nat
        BY <2>2, <2>3
      <3> QED
        BY <2>2, <2>3, <3>1, <3>2
    <2>5. /\ ledgerOf' \in [Accounts \cup {System} -> Int]
          /\ ledgerOf'[r.source] = ledgerOf[r.source] - r.amount
          /\ ledgerOf'[r.destination] = ledgerOf[r.destination] + r.amount
          /\ \A a \in Accounts \ {r.source, r.destination} : ledgerOf'[a] = ledgerOf[a]
      BY <1>2, <2>2, <2>3 DEF T!PostEntries
    <2>6. /\ moved' \in [Journals -> Nat]
          /\ \A j \in Journals \ T!KeyIds : moved'[j] = moved[j]
      BY <1>2, <2>2, <2>3, RequestsAssumption DEF T!PostEntries
    <2>7. rowLock' = [a \in Accounts |-> IF rowLock[a] = s THEN NoSession ELSE rowLock[a]]
      BY <1>2 DEF T!Finish, T!ReleaseRows
    <2>8. Spares(s) /\ rowLock' \in [Accounts -> Sessions \cup {NoSession}]
      BY <2>1, <2>2, <2>4, <2>7, ReleasedRows DEF Spares
    <2>9. Books'
      <3>1. Sum(balance', Accounts) = Sum(balance, Accounts)
        BY <2>2, <2>3, <2>4, SumOfMovement
      <3>2. \A p \in PaymentIds : p \notin T!KeyIds
        BY IdsAssumption DEF T!KeyIds
      <3>3. \A p \in PaymentIds : moved'[p] \in Int /\ moved'[p] = moved[p]
        BY <2>3, <2>6, <3>2, RequestsAssumption
      <3>4. Sum(moved', PaymentIds) = Sum(moved, PaymentIds)
        BY <3>3, IdsAssumption, SumSame
      <3> QED
        BY <2>1, <3>1, <3>4 DEF StoreInv, Books
    <2>10. StoreInv'
      <3>1. \A a \in Accounts : balance'[a] = ledgerOf'[a]
        BY <2>2, <2>3, <2>4, <2>5
      <3> QED
        BY <2>4, <2>5, <2>6, <2>8, <2>9, <3>1 DEF StoreInv, StoreTypeOK, NoDivergentAccount
    <2>11. /\ transfers' = [transfers EXCEPT ![key[s]] = r]
           /\ pc' = [pc EXCEPT ![s] = "done"]
           /\ reply' = [reply EXCEPT ![s] = "COMPLETED"]
           /\ draft' = [draft EXCEPT ![s] = T!NoRecord]
           /\ entity' = [entity EXCEPT ![s] = T!NoEntity]
           /\ found' = [found EXCEPT ![s] = FALSE]
           /\ UNCHANGED <<key, overlapped>>
      BY <1>2 DEF T!Finish, T!GoTo
    <2>12. T!NoRecord \in T!TransferRecord /\ T!NoEntity \in [Accounts -> Int]
           /\ "COMPLETED" \in T!Replies
      BY DEF T!NoRecord, T!TransferRecord, T!NoEntity, T!Replies
    <2>13. T!ServiceTypeOK'
      BY <2>1, <2>2, <2>11, <2>12 DEF T!ServiceTypeOK, T!Statements
    <2>14. pc'[s] = "done"
           /\ \A t \in TransferSessions \ {s} :
                 /\ pc'[t] = pc[t] /\ key'[t] = key[t]
                 /\ draft'[t] = draft[t] /\ entity'[t] = entity[t]
      BY <2>1, <2>11 DEF T!ServiceTypeOK
    <2>15. ValidDraft(s)' /\ HoldsItsRows(s)'
      BY <2>14, HoldsNoRows DEF ValidDraft, T!Serving, T!Statements
    <2>16. ValidRecords'
      <3>1. transfers'[key[s]] = r /\ \A k \in T!KeyIds \ {key[s]} : transfers'[k] = transfers[k]
        BY <2>1, <2>2, <2>11 DEF T!ServiceTypeOK
      <3>2. r.source # r.destination /\ r.amount > 0
        BY <2>2
      <3> QED
        BY <2>1, <3>1, <3>2 DEF ValidRecords, T!Recorded
    <2> QED
      BY <2>8, <2>10, <2>13, <2>14, <2>15, <2>16, TransferCarries
  <1> QED
    BY <1>1, <1>2 DEF T!Commit

LEMMA TransferStep ==
    ASSUME BankInv, T!Next, UNCHANGED cardVars
    PROVE  BankInv'
  <1>1. PICK s \in TransferSessions : T!Receive(s) \/ T!Step(s) \/ T!Crash(s) \/ T!Return(s)
    BY DEF T!Next
  <1>2. \A a \in {"COMPLETED", "CONFLICT", "NOT_FOUND", "INVALID", "ERROR"} : a \in T!Replies
    BY DEF T!Replies
  <1>3. CASE T!ExistsById(s)
    BY <1>2, <1>3, TransferRollback, TransferProceed DEF T!ExistsById
  <1>4. CASE T!FindReversal(s)
    BY <1>2, <1>4, TransferRollback, TransferProceed DEF T!FindReversal
  <1>5. CASE T!FindPrior(s)
    BY <1>2, <1>5, TransferRollback, TransferProceed DEF T!FindPrior
  <1>6. CASE T!LockFirst(s)
    BY <1>2, <1>6, TransferRollback, TransferLock DEF T!LockFirst
  <1>7. CASE T!LockSecond(s)
    BY <1>2, <1>7, TransferRollback, TransferLock DEF T!LockSecond
  <1>8. CASE T!Crash(s)
    BY <1>2, <1>8, TransferRollback DEF T!Crash
  <1> QED
    BY <1>1, <1>3, <1>4, <1>5, <1>6, <1>7, <1>8, TransferRequestStep, TransferFindOriginal,
       TransferApply, TransferCommit DEF T!Step

-----------------------------------------------------------------------------
(* The steps of CardService *)

\* A statement that writes no rows: it may lock one, or end the transaction.
LEMMA CardLooks ==
    ASSUME BankInv, NEW s \in CardSessions,
           UNCHANGED <<balance, ledgerOf, moved, transferVars>>,
           rowLock' \in [Accounts -> Sessions \cup {NoSession}],
           \A a \in Accounts : rowLock[a] \in Sessions \ {s} => rowLock'[a] = rowLock[a],
           NEW step \in C!PaymentSteps \cup C!IssueSteps \cup {"idle", "done"}, C!GoTo(s, step),
           NEW j, job' = [job EXCEPT ![s] = j],
           NEW d, decision' = [decision EXCEPT ![s] = d],
           NEW n, loaded' = [loaded EXCEPT ![s] = n],
           step \in C!PaymentSteps => j \in Payments,
           step \in C!IssueSteps => j.card \in C!CardKeys,
           step = "lockLine" => j.type = "CREDIT",
           HoldsDebited(s)'
    PROVE  BankInv'
  <1>1. CardTypes /\ StoreInv
    BY DEF BankInv, CardInv
  <1>2. Spares(s) /\ StoreInv'
    BY <1>1, StoreKept DEF Spares
  <1>3. /\ at'[s] = step /\ job'[s] = j
        /\ \A c \in CardSessions \ {s} :
              /\ at'[c] = at[c] /\ job'[c] = job[c]
              /\ decision'[c] = decision[c] /\ loaded'[c] = loaded[c]
    BY <1>1 DEF CardTypes, C!GoTo
  <1>4. CardTypes'
    <2>1. at' \in [CardSessions -> C!PaymentSteps \cup C!IssueSteps \cup {"idle", "done"}]
      BY <1>1 DEF CardTypes, C!GoTo
    <2>2. /\ job' = [c \in CardSessions |-> job'[c]]
          /\ decision' = [c \in CardSessions |-> decision'[c]]
          /\ loaded' = [c \in CardSessions |-> loaded'[c]]
      BY <1>1 DEF CardTypes
    <2> QED
      BY <2>1, <2>2 DEF CardTypes
  <1>5. ServesRequest(s)'
    BY <1>3 DEF ServesRequest
  <1> QED
    BY <1>2, <1>3, <1>4, <1>5, CardCarries

\* Only what is about to commit the capture of a debit payment holds a row for it.
LEMMA HoldsNoDebit ==
    ASSUME NEW s \in CardSessions,
           at'[s] # "commit" \/ decision'[s] # "CAPTURED" \/ job'[s].type # "DEBIT"
    PROVE  HoldsDebited(s)'
  BY DEF HoldsDebited

LEMMA CardSteps ==
    /\ \A x \in {"advisory", "findPayment", "lockCard", "lockAccount", "lockLine", "commit"} :
          x \in C!PaymentSteps /\ x \notin C!IssueSteps
    /\ \A x \in {"lockOwner", "findCard", "saveCard"} :
          x \in C!IssueSteps /\ x \notin C!PaymentSteps
    /\ \A x \in {"idle", "done"} : x \notin C!IssueSteps /\ x \notin C!PaymentSteps
  BY DEF C!PaymentSteps, C!IssueSteps

\* The locks of a transaction that ends.
LEMMA CardFinished ==
    ASSUME StoreInv, NEW s \in CardSessions, NEW a, C!Finish(s, a)
    PROVE  /\ rowLock' = [b \in Accounts |-> IF rowLock[b] = s THEN NoSession ELSE rowLock[b]]
           /\ rowLock' \in [Accounts -> Sessions \cup {NoSession}]
           /\ \A b \in Accounts : rowLock[b] \in Sessions \ {s} => rowLock'[b] = rowLock[b]
  <1>1. rowLock' = [b \in Accounts |-> IF rowLock[b] = s THEN NoSession ELSE rowLock[b]]
    BY DEF C!Finish, C!ReleaseRows
  <1> QED
    BY <1>1, SessionKinds, ReleasedRows

\* A transaction that ends without writing accounts.
LEMMA CardEnds ==
    ASSUME BankInv, NEW s \in CardSessions, NEW a, C!Finish(s, a),
           UNCHANGED <<balance, ledgerOf, moved, transferVars>>
    PROVE  BankInv'
  <1>1. CardTypes /\ StoreInv
    BY DEF BankInv, CardInv
  <1>2. /\ C!GoTo(s, "done") /\ job' = job
        /\ decision' = [decision EXCEPT ![s] = C!None] /\ loaded' = [loaded EXCEPT ![s] = 0]
    BY DEF C!Finish
  <1>3. job' = [job EXCEPT ![s] = job[s]]
    BY <1>1, <1>2 DEF CardTypes
  <1>4. at'[s] = "done"
    BY <1>1, <1>2 DEF CardTypes, C!GoTo
  <1> HIDE DEF C!None
  <1> QED
    BY <1>1, <1>2, <1>3, <1>4, CardFinished, CardLooks, CardSteps, HoldsNoDebit

\* A statement that locks no row and goes on, with the decision it has made if
\* it has made one.
LEMMA CardGoesOn ==
    ASSUME BankInv, NEW s \in CardSessions, UNCHANGED <<storeVars, transferVars, job>>,
           NEW step, step # "lockLine", C!GoTo(s, step),
           \/ at[s] \in C!PaymentSteps /\ step \in C!PaymentSteps
           \/ at[s] \in C!IssueSteps /\ step \in C!IssueSteps,
           NEW d, NEW n,
           \/ step # "commit" /\ UNCHANGED <<decision, loaded>>
           \/ /\ decision' = [decision EXCEPT ![s] = d] /\ loaded' = [loaded EXCEPT ![s] = n]
              /\ d # "CAPTURED" \/ job[s].type # "DEBIT"
    PROVE  BankInv'
  <1>1. CardTypes /\ StoreInv /\ ServesRequest(s)
    BY DEF BankInv, CardInv
  <1>2. /\ job' = [job EXCEPT ![s] = job[s]]
        /\ UNCHANGED decision => decision' = [decision EXCEPT ![s] = decision[s]]
        /\ UNCHANGED loaded => loaded' = [loaded EXCEPT ![s] = loaded[s]]
    BY <1>1 DEF CardTypes
  <1>3. /\ at'[s] = step /\ job'[s] = job[s]
        /\ decision' = [decision EXCEPT ![s] = d] => decision'[s] = d
    BY <1>1 DEF CardTypes, C!GoTo
  <1>4. HoldsDebited(s)'
    BY <1>3, HoldsNoDebit
  <1>5. rowLock' = rowLock /\ rowLock \in [Accounts -> Sessions \cup {NoSession}]
        /\ UNCHANGED <<balance, ledgerOf, moved, transferVars>>
    BY <1>1 DEF StoreInv, StoreTypeOK, storeVars
  <1>6. /\ step \in C!PaymentSteps => job[s] \in Payments
        /\ step \in C!IssueSteps => job[s].card \in C!CardKeys
    BY <1>1 DEF ServesRequest, C!PaymentSteps, C!IssueSteps
  <1>7. step \in C!PaymentSteps \cup C!IssueSteps \cup {"idle", "done"}
    OBVIOUS
  <1>8. CASE step # "commit" /\ UNCHANGED <<decision, loaded>>
    BY <1>2, <1>4, <1>5, <1>6, <1>7, <1>8, CardLooks
  <1>9. CASE decision' = [decision EXCEPT ![s] = d] /\ loaded' = [loaded EXCEPT ![s] = n]
    BY <1>2, <1>4, <1>5, <1>6, <1>7, <1>9, CardLooks
  <1> QED
    BY <1>8, <1>9

\* A request arrives, or the answer of the last one leaves.
LEMMA CardRequestStep ==
    ASSUME BankInv, NEW s \in CardSessions, C!Receive(s) \/ C!Return(s), UNCHANGED transferVars
    PROVE  BankInv'
  <1>1. CardTypes /\ StoreInv
    BY DEF BankInv, CardInv
  <1>2. /\ decision' = decision => decision' = [decision EXCEPT ![s] = decision[s]]
        /\ loaded' = loaded => loaded' = [loaded EXCEPT ![s] = loaded[s]]
    BY <1>1 DEF CardTypes
  <1>3. ASSUME NEW step \in {"advisory", "lockOwner", "idle"}, C!GoTo(s, step),
               NEW j, job' = [job EXCEPT ![s] = j],
               UNCHANGED <<storeVars, decision, loaded>>,
               step = "advisory" => j \in Payments,
               step = "lockOwner" => j.card \in C!CardKeys
        PROVE  BankInv'
    <2>1. at'[s] = step
      BY <1>1, <1>3 DEF CardTypes, C!GoTo
    <2>2. HoldsDebited(s)'
      BY <1>3, <2>1, HoldsNoDebit
    <2>3. /\ step \in C!PaymentSteps \cup C!IssueSteps \cup {"idle", "done"}
          /\ step \in C!PaymentSteps => j \in Payments
          /\ step \in C!IssueSteps => j.card \in C!CardKeys
      BY <1>3, CardSteps
    <2>4. rowLock' = rowLock /\ rowLock \in [Accounts -> Sessions \cup {NoSession}]
          /\ UNCHANGED <<balance, ledgerOf, moved, transferVars>>
      BY <1>1, <1>3 DEF StoreInv, StoreTypeOK, storeVars
    <2> QED
      BY <1>2, <1>3, <2>2, <2>3, <2>4, CardLooks
  <1>4. ASSUME NEW r \in Payments, C!ReceivePayment(s, r) PROVE BankInv'
    BY <1>3, <1>4 DEF C!ReceivePayment, C!storeVars, storeVars
  <1>5. ASSUME NEW c \in C!CardKeys, C!ReceiveIssue(s, c) PROVE BankInv'
    BY <1>3, <1>5 DEF C!ReceiveIssue, C!storeVars, storeVars
  <1>6. CASE C!Return(s)
    BY <1>3, <1>6 DEF C!Return, C!storeVars, storeVars
  <1> QED
    BY <1>4, <1>5, <1>6 DEF C!Receive

\* accounts.findByIdForUpdate of either transaction: the row was free, and what
\* a debit will leave is computed from it.
LEMMA CardLock ==
    ASSUME BankInv, NEW s \in CardSessions, C!LockAccount(s) \/ C!LockOwner(s),
           UNCHANGED transferVars
    PROVE  BankInv'
  <1> DEFINE r == job[s]
             a == C!Owner(r)
  <1>1. CardTypes /\ StoreInv /\ ServesRequest(s) /\ s \in Sessions
    BY SessionKinds DEF BankInv, CardInv
  <1>2. /\ C!LockRow(s, a) /\ UNCHANGED <<balance, ledgerOf, moved>>
        /\ job' = job /\ job' = [job EXCEPT ![s] = r]
    BY <1>1 DEF C!LockAccount, C!LockOwner, C!Keep, CardTypes
  <1>3. a \in Accounts
    <2>1. CASE C!LockAccount(s)
      <3>1. r \in Payments
        BY <1>1, <2>1, CardSteps DEF C!LockAccount, ServesRequest
      <3> QED
        BY <3>1, PaymentTypes
    <2>2. CASE C!LockOwner(s)
      <3>1. r.card \in Accounts \X C!Types
        BY <1>1, <2>2, CardSteps DEF C!LockOwner, ServesRequest, C!CardKeys
      <3> QED
        BY <3>1 DEF C!Owner
    <2> QED
      BY <2>1, <2>2
  <1>4. /\ rowLock' \in [Accounts -> Sessions \cup {NoSession}] /\ rowLock'[a] = s
        /\ \A b \in Accounts : rowLock[b] \in Sessions \ {s} => rowLock'[b] = rowLock[b]
    BY <1>1, <1>2, <1>3, LockedRow, StoreAssumption DEF C!LockRow
  <1>5. /\ decision' = decision => decision' = [decision EXCEPT ![s] = decision[s]]
        /\ loaded' = loaded => loaded' = [loaded EXCEPT ![s] = loaded[s]]
    BY <1>1 DEF CardTypes
  <1>6. ASSUME NEW step, C!GoTo(s, step), UNCHANGED <<decision, loaded>>,
               \/ step = "lockLine" /\ r \in Payments /\ r.type = "CREDIT"
               \/ step = "findCard" /\ r.card \in C!CardKeys
        PROVE  BankInv'
    <2>1. at'[s] # "commit"
      BY <1>1, <1>6 DEF CardTypes, C!GoTo
    <2>2. /\ step \in C!PaymentSteps \cup C!IssueSteps \cup {"idle", "done"}
          /\ step \in C!PaymentSteps => r \in Payments
          /\ step \in C!IssueSteps => r.card \in C!CardKeys
      BY <1>6, CardSteps
    <2>3. HoldsDebited(s)'
      BY <2>1, HoldsNoDebit
    <2> QED
      BY <1>2, <1>4, <1>5, <1>6, <2>2, <2>3, CardLooks
  <1>7. ASSUME NEW d, NEW n, C!Decide(s, d, n), r \in Payments,
               d = "CAPTURED" => balance[a] >= r.amount /\ n = balance[a] - r.amount
        PROVE  BankInv'
    <2>1. /\ C!GoTo(s, "commit") /\ at'[s] = "commit" /\ job'[s] = r
          /\ decision' = [decision EXCEPT ![s] = d] /\ decision'[s] = d
          /\ loaded' = [loaded EXCEPT ![s] = n] /\ loaded'[s] = n
      BY <1>1, <1>2, <1>7 DEF CardTypes, C!Decide, C!GoTo
    <2>2. HoldsDebited(s)'
      BY <1>2, <1>4, <1>7, <2>1 DEF HoldsDebited
    <2> QED
      BY <1>2, <1>4, <1>7, <2>1, <2>2, CardSteps, CardLooks
  <1>8. C!HolderDecline(r) # "CAPTURED" /\ "INSUFFICIENT_FUNDS" # "CAPTURED"
    BY DEF C!HolderDecline, C!None
  <1>9. CASE C!LockAccount(s)
    <2>1. r \in Payments
      BY <1>1, <1>9, CardSteps DEF C!LockAccount, ServesRequest
    <2> QED
      BY <1>6, <1>7, <1>8, <1>9, <2>1 DEF C!LockAccount
  <1>10. CASE C!LockOwner(s)
    <2>1. r.card \in C!CardKeys
      BY <1>1, <1>10, CardSteps DEF C!LockOwner, ServesRequest
    <2> QED
      BY <1>6, <1>10, <2>1 DEF C!LockOwner
  <1> QED
    BY <1>9, <1>10

\* The commit of a debit payment moves what it takes from the balance to the
\* acquirer, under the payment's own id.
LEMMA CardCommit ==
    ASSUME BankInv, NEW s \in CardSessions, C!CommitPayment(s), UNCHANGED transferVars
    PROVE  BankInv'
  <1> DEFINE r == job[s]
             a == C!Owner(r)
  <1>1. CardTypes /\ StoreInv /\ ServesRequest(s) /\ HoldsDebited(s) /\ s \in Sessions
    BY SessionKinds DEF BankInv, CardInv
  <1>2. at[s] = "commit" /\ C!Finish(s, decision[s]) /\ r \in Payments
    BY <1>1, CardSteps DEF C!CommitPayment, ServesRequest
  <1>3. CASE UNCHANGED <<balance, ledgerOf, moved>>
    BY <1>2, <1>3, CardEnds
  <1>4. CASE /\ decision[s] = "CAPTURED" /\ r.type = "DEBIT"
             /\ C!WriteBalances({a}, [balance EXCEPT ![a] = loaded[s]])
             /\ C!PostEntries(r.id, a, C!System, r.amount)
    <2>1. /\ r.id \in PaymentIds /\ r.id \in Journals /\ a \in Accounts /\ a # System
          /\ r.amount \in Nat /\ r.amount > 0
      BY <1>2, PaymentTypes
    <2>2. rowLock[a] = s /\ balance[a] >= r.amount /\ loaded[s] = balance[a] - r.amount
      BY <1>1, <1>2, <1>4 DEF HoldsDebited
    <2>3. /\ balance \in [Accounts -> Nat] /\ ledgerOf \in [Accounts \cup {System} -> Int]
          /\ moved \in [Journals -> Nat] /\ \A b \in Accounts : balance[b] = ledgerOf[b]
      BY <1>1 DEF StoreInv, StoreTypeOK, NoDivergentAccount
    <2>4. /\ balance' \in [Accounts -> Nat] /\ balance'[a] = balance[a] - r.amount
          /\ \A b \in Accounts \ {a} : balance'[b] = balance[b]
      <3>1. loaded[s] \in Nat
        BY <2>1, <2>2, <2>3
      <3>2. balance' = [b \in Accounts |-> IF b \in {a} THEN loaded[s] ELSE balance[b]]
        BY <1>4, <2>1, <2>3 DEF C!WriteBalances
      <3> QED
        BY <2>1, <2>2, <2>3, <3>1, <3>2
    <2>5. /\ ledgerOf' \in [Accounts \cup {System} -> Int]
          /\ ledgerOf'[a] = ledgerOf[a] - r.amount
          /\ \A b \in Accounts \ {a} : ledgerOf'[b] = ledgerOf[b]
      <3>1. ledgerOf' = [ledgerOf EXCEPT ![a] = @ - r.amount, ![System] = @ + r.amount]
        BY <1>4 DEF C!PostEntries, C!System, System
      <3>2. \A b \in Accounts : b # System
        BY StoreAssumption DEF System
      <3> QED
        BY <2>1, <2>3, <3>1, <3>2
    <2>6. /\ moved' \in [Journals -> Nat] /\ moved'[r.id] = moved[r.id] + r.amount
          /\ \A j \in Journals \ {r.id} : moved'[j] = moved[j]
      BY <1>4, <2>1, <2>3 DEF C!PostEntries
    <2>7. Books'
      <3>1. Sum(balance', Accounts) = Sum(balance, Accounts) + (balance'[a] - balance[a])
        BY <2>1, <2>3, <2>4, IdsAssumption, SumChangedAt
      <3>2. /\ \A p \in PaymentIds : p \in Journals /\ moved'[p] \in Int /\ moved[p] \in Int
            /\ \A p \in PaymentIds \ {r.id} : moved'[p] = moved[p]
        BY <2>3, <2>6, RequestsAssumption
      <3>3. Sum(moved', PaymentIds) = Sum(moved, PaymentIds) + (moved'[r.id] - moved[r.id])
        BY <2>1, <3>2, IdsAssumption, SumChangedAt
      <3>4. Sum(balance, Accounts) \in Int /\ Sum(moved, PaymentIds) \in Int
        BY <1>1, BookTypes
      <3>5. balance'[a] - balance[a] = -r.amount /\ moved'[r.id] - moved[r.id] = r.amount
        <4>1. balance[a] \in Int /\ moved[r.id] \in Int /\ r.amount \in Int
          BY <2>1, <2>3
        <4>2. \A i, n \in Int : (i - n) - i = -n /\ (i + n) - i = n
          OBVIOUS
        <4> QED
          BY <2>4, <2>6, <4>1, <4>2
      <3>6. \A i, j, n \in Int : (i + (-n)) + (j + n) = i + j
        OBVIOUS
      <3>7. Sum(OpeningBalance, Accounts) = Sum(balance, Accounts) + Sum(moved, PaymentIds)
        BY <1>1 DEF StoreInv, Books
      <3>8. Sum(OpeningBalance, Accounts) = Sum(balance', Accounts) + Sum(moved', PaymentIds)
        BY <2>1, <3>1, <3>3, <3>4, <3>5, <3>6, <3>7
      <3> QED
        BY <3>8 DEF Books
    <2>8. StoreInv'
      <3>1. \A b \in Accounts : balance'[b] = ledgerOf'[b]
        BY <2>1, <2>3, <2>4, <2>5
      <3> QED
        BY <1>1, <1>2, <2>4, <2>5, <2>6, <2>7, <3>1, CardFinished
        DEF StoreInv, StoreTypeOK, NoDivergentAccount
    <2>9. Spares(s)
      BY <1>1, <1>2, <2>2, <2>4, CardFinished DEF Spares
    <2>10. /\ at' = [at EXCEPT ![s] = "done"] /\ job' = job
           /\ decision' = [decision EXCEPT ![s] = C!None] /\ loaded' = [loaded EXCEPT ![s] = 0]
      BY <1>2 DEF C!Finish, C!GoTo
    <2>11. CardTypes'
      <3>1. at' \in [CardSessions -> C!PaymentSteps \cup C!IssueSteps \cup {"idle", "done"}]
        BY <1>1, <2>10 DEF CardTypes
      <3>2. /\ job' = [c \in CardSessions |-> job'[c]]
            /\ decision' = [c \in CardSessions |-> decision'[c]]
            /\ loaded' = [c \in CardSessions |-> loaded'[c]]
        BY <1>1, <2>10 DEF CardTypes
      <3> QED
        BY <3>1, <3>2 DEF CardTypes
    <2>12. at'[s] = "done"
           /\ \A c \in CardSessions \ {s} :
                 /\ at'[c] = at[c] /\ job'[c] = job[c]
                 /\ decision'[c] = decision[c] /\ loaded'[c] = loaded[c]
      BY <1>1, <2>10 DEF CardTypes
    <2>13. ServesRequest(s)' /\ HoldsDebited(s)'
      BY <2>12, CardSteps, HoldsNoDebit DEF ServesRequest
    <2> QED
      BY <2>8, <2>9, <2>11, <2>12, <2>13, CardCarries
  <1> QED
    BY <1>3, <1>4 DEF C!CommitPayment

LEMMA CardStep ==
    ASSUME BankInv, C!Next, UNCHANGED transferVars
    PROVE  BankInv'
  <1>1. PICK s \in CardSessions : C!Receive(s) \/ C!Step(s) \/ C!Crash(s) \/ C!Return(s)
    BY DEF C!Next
  <1>2. ASSUME NEW a, C!Rollback(s, a) PROVE BankInv'
    BY <1>2, CardEnds DEF C!Rollback
  <1>3. ASSUME NEW from, at[s] = from, NEW step, step # "commit", step # "lockLine",
               C!GoTo(s, step),
               \/ from \in C!PaymentSteps /\ step \in C!PaymentSteps
               \/ from \in C!IssueSteps /\ step \in C!IssueSteps,
               C!Keep, UNCHANGED <<rowLock, decision, loaded>>
        PROVE  BankInv'
    BY <1>3, CardGoesOn DEF C!Keep, storeVars
  <1>4. ASSUME at[s] \in C!PaymentSteps, NEW d, NEW n, C!Decide(s, d, n), C!Keep,
               UNCHANGED rowLock, d # "CAPTURED" \/ job[s].type # "DEBIT"
        PROVE  BankInv'
    BY <1>4, CardGoesOn, CardSteps DEF C!Keep, C!Decide, storeVars
  <1>5. CASE C!AcquirePaymentLock(s)
    BY <1>3, <1>5, CardSteps DEF C!AcquirePaymentLock
  <1>6. CASE C!FindPayment(s)
    <2>1. C!EarlyDecline(job[s]) # "CAPTURED"
      BY DEF C!EarlyDecline, C!None
    <2> QED
      BY <1>2, <1>3, <1>4, <1>6, <2>1, CardSteps DEF C!FindPayment
  <1>7. CASE C!LockCard(s)
    BY <1>3, <1>4, <1>7, CardSteps DEF C!LockCard
  <1>8. CASE C!LockLine(s)
    <2>1. /\ at[s] \in C!PaymentSteps /\ C!Keep /\ UNCHANGED rowLock
          /\ job[s].type = "CREDIT"
      BY <1>8, CardSteps DEF C!LockLine, BankInv, CardInv, ServesRequest
    <2> QED
      BY <1>4, <1>8, <2>1 DEF C!LockLine
  <1>9. CASE C!FindCard(s)
    BY <1>2, <1>3, <1>9, CardSteps DEF C!FindCard
  <1>10. CASE C!SaveCard(s)
    BY <1>10, CardEnds DEF C!SaveCard
  <1>11. CASE C!Crash(s)
    BY <1>2, <1>11 DEF C!Crash
  <1> QED
    BY <1>1, <1>5, <1>6, <1>7, <1>8, <1>9, <1>10, <1>11, CardRequestStep, CardLock, CardCommit
    DEF C!Step, C!WaitStep

-----------------------------------------------------------------------------
LEMMA InitBankInv == Init => BankInv
  <1> SUFFICES ASSUME Init PROVE BankInv
    OBVIOUS
  <1>0. \A a \in Accounts : OpeningBalance[a] \in Int
    BY StoreAssumption
  <1> USE DEF Init, StoreInit, T!ServiceInit, C!CardInit
  <1>1. StoreTypeOK /\ NoDivergentAccount
    BY StoreAssumption DEF StoreTypeOK, NoDivergentAccount, System
  <1>2. Books
    <2>1. \A p \in PaymentIds : moved[p] = 0
      BY RequestsAssumption
    <2>2. Sum(moved, PaymentIds) = 0
      BY <2>1, IdsAssumption, SumOfZeros
    <2>3. Sum(OpeningBalance, Accounts) \in Int
      BY <1>0, IdsAssumption, SumType
    <2> QED
      BY <2>2, <2>3 DEF Books
  <1>3. TransferInv
    BY DEF TransferInv, T!ServiceTypeOK, T!TransferRecord, T!NoRecord, T!Statements, T!Replies,
           T!NoEntity, ValidRecords, T!Recorded, ValidDraft, HoldsItsRows, T!Serving
  <1>4. CardInv
    BY CardSteps DEF CardInv, CardTypes, ServesRequest, HoldsDebited
  <1> QED
    BY <1>1, <1>2, <1>3, <1>4 DEF BankInv, StoreInv

LEMMA NextBankInv == BankInv /\ [Next]_vars => BankInv'
  <1> SUFFICES ASSUME BankInv, [Next]_vars PROVE BankInv'
    OBVIOUS
  <1>1. CASE UNCHANGED vars
    <2>1. StoreInv'
      BY <1>1, StoreKept DEF vars, storeVars, BankInv, StoreInv, StoreTypeOK
    <2>2. TransferInv'
      BY <1>1 DEF vars, storeVars, transferVars, BankInv, TransferInv, T!ServiceTypeOK, ValidRecords,
                  T!Recorded, ValidDraft, HoldsItsRows, T!Serving, T!FirstId
    <2>3. CardInv'
      BY <1>1 DEF vars, storeVars, cardVars, BankInv, CardInv, CardTypes, ServesRequest, HoldsDebited
    <2> QED
      BY <2>1, <2>2, <2>3 DEF BankInv
  <1> QED
    BY <1>1, TransferStep, CardStep DEF Next

LEMMA BankInvariance == Spec => []BankInv
  BY InitBankInv, NextBankInv, PTL DEF Spec

\* Whatever the two services' transactions do to each other, and whichever of
\* them die, the accounts hold what they opened with less what captured debit
\* payments paid the acquirer.
THEOREM MoneyStaysWhole == Spec => []MoneyIsConserved
  <1>1. BankInv => MoneyIsConserved
    BY DEF BankInv, StoreInv, Books, MoneyIsConserved, Sum
  <1> QED
    BY <1>1, BankInvariance, PTL

\* The metric of divergent accounts stays at zero with both services running,
\* and no committed balance is ever negative.
THEOREM BothServicesKeepLedger == Spec => [](NoDivergentAccount /\ StoreTypeOK)
  <1>1. BankInv => NoDivergentAccount /\ StoreTypeOK
    BY DEF BankInv, StoreInv
  <1> QED
    BY <1>1, BankInvariance, PTL

-----------------------------------------------------------------------------
(* The order of the locks *)

\* A transfer that still waits for a row holds only its first.
TransferHolds(s) ==
    \A a \in Accounts : rowLock[a] = s =>
        \/ pc[s] = "lockSecond" /\ a = T!FirstId(draft[s])
        \/ pc[s] \in {"apply", "commit"}

\* What a session of CardService has done when it holds each kind of lock.
CardHolds(s) ==
    /\ \A p \in PaymentIds : payLock[p] = s => at[s] \in C!PaymentSteps \ {"advisory"}
    /\ \A x \in C!CardKeys : cardLock[x] = s => at[s] \in {"lockAccount", "lockLine", "commit"}
    /\ \A a \in Accounts :
          /\ rowLock[a] = s => at[s] \in {"findCard", "saveCard", "lockLine", "commit"}
          /\ lineLock[a] = s => at[s] = "commit"

CardLockTypes ==
    /\ payLock \in [PaymentIds -> CardSessions \cup {NoSession}]
    /\ cardLock \in [C!CardKeys -> CardSessions \cup {NoSession}]
    /\ lineLock \in [Accounts -> CardSessions \cup {NoSession}]

LocksInv ==
    /\ CardLockTypes
    /\ \A s \in TransferSessions : TransferHolds(s)
    /\ \A s \in CardSessions : CardHolds(s)

\* A step of s takes or releases locks for s alone.
LEMMA TransferHoldsOn ==
    ASSUME BankInv, LocksInv, NEW s \in TransferSessions, UNCHANGED cardVars,
           \A t \in TransferSessions \ {s} : pc'[t] = pc[t] /\ draft'[t] = draft[t],
           \A a \in Accounts : rowLock'[a] \in {rowLock[a], NoSession, s},
           TransferHolds(s)'
    PROVE  LocksInv'
  <1>1. CardLockTypes'
    BY DEF LocksInv, CardLockTypes, cardVars
  <1>2. ASSUME NEW t \in TransferSessions \ {s} PROVE TransferHolds(t)'
    <2>1. \A a \in Accounts : rowLock'[a] = t => rowLock[a] = t
      BY SessionKinds
    <2> QED
      BY <2>1 DEF LocksInv, TransferHolds, T!FirstId
  <1>3. ASSUME NEW c \in CardSessions PROVE CardHolds(c)'
    <2>1. \A a \in Accounts : rowLock'[a] = c => rowLock[a] = c
      BY SessionKinds
    <2> QED
      BY <2>1 DEF LocksInv, CardHolds, cardVars
  <1> QED
    BY <1>1, <1>2, <1>3 DEF LocksInv

LEMMA CardHoldsOn ==
    ASSUME BankInv, LocksInv, NEW s \in CardSessions, UNCHANGED transferVars, CardLockTypes',
           \A t \in CardSessions \ {s} : at'[t] = at[t],
           \A a \in Accounts : rowLock'[a] \in {rowLock[a], NoSession, s},
           \A p \in PaymentIds : payLock'[p] \in {payLock[p], NoSession, s},
           \A x \in C!CardKeys : cardLock'[x] \in {cardLock[x], NoSession, s},
           \A a \in Accounts : lineLock'[a] \in {lineLock[a], NoSession, s},
           CardHolds(s)'
    PROVE  LocksInv'
  <1>1. ASSUME NEW t \in TransferSessions PROVE TransferHolds(t)'
    <2>1. \A a \in Accounts : rowLock'[a] = t => rowLock[a] = t
      BY SessionKinds
    <2> QED
      BY <2>1 DEF LocksInv, TransferHolds, transferVars, T!FirstId
  <1>2. ASSUME NEW c \in CardSessions \ {s} PROVE CardHolds(c)'
    <2>1. /\ \A a \in Accounts : rowLock'[a] = c => rowLock[a] = c
          /\ \A a \in Accounts : lineLock'[a] = c => lineLock[a] = c
          /\ \A p \in PaymentIds : payLock'[p] = c => payLock[p] = c
          /\ \A x \in C!CardKeys : cardLock'[x] = c => cardLock[x] = c
      BY SessionKinds
    <2> QED
      BY <2>1 DEF LocksInv, CardHolds
  <1> QED
    BY <1>1, <1>2 DEF LocksInv

LEMMA TransferLocksStep ==
    ASSUME BankInv, LocksInv, T!Next, UNCHANGED cardVars
    PROVE  LocksInv'
  <1>1. PICK s \in TransferSessions : T!Receive(s) \/ T!Step(s) \/ T!Crash(s) \/ T!Return(s)
    BY DEF T!Next
  <1>2. /\ pc \in [TransferSessions -> T!Statements \cup {"idle", "done"}]
        /\ draft \in [TransferSessions -> T!TransferRecord]
        /\ rowLock \in [Accounts -> Sessions \cup {NoSession}]
        /\ s # NoSession /\ TransferHolds(s)
    BY SessionKinds DEF BankInv, TransferInv, T!ServiceTypeOK, StoreInv, StoreTypeOK, LocksInv
  \* A step before the locks, after them, or between requests, takes none.
  <1>3. ASSUME UNCHANGED rowLock,
               \A t \in TransferSessions \ {s} : pc'[t] = pc[t] /\ draft'[t] = draft[t],
               pc[s] \notin {"lockSecond", "apply", "commit"} \/ pc'[s] = "commit"
        PROVE  LocksInv'
    <2>1. TransferHolds(s)'
      BY <1>2, <1>3 DEF TransferHolds
    <2> QED
      BY <1>3, <2>1, TransferHoldsOn
  <1>4. ASSUME NEW outcome, T!Finish(s, outcome) PROVE LocksInv'
    <2>1. rowLock' = [a \in Accounts |-> IF rowLock[a] = s THEN NoSession ELSE rowLock[a]]
      BY <1>4 DEF T!Finish, T!ReleaseRows
    <2>2. \A t \in TransferSessions \ {s} : pc'[t] = pc[t] /\ draft'[t] = draft[t]
      BY <1>2, <1>4 DEF T!Finish, T!GoTo
    <2>3. TransferHolds(s)'
      BY <1>2, <2>1 DEF TransferHolds
    <2> QED
      BY <2>1, <2>2, <2>3, TransferHoldsOn
  <1>5. ASSUME NEW outcome, T!Rollback(s, outcome) PROVE LocksInv'
    BY <1>4, <1>5 DEF T!Rollback
  <1>6. ASSUME NEW statement, T!Proceed(s, statement),
               pc[s] \notin {"lockSecond", "apply", "commit"}
        PROVE  LocksInv'
    BY <1>2, <1>3, <1>6 DEF T!Proceed, T!GoTo, T!storeVars
  <1>7. ASSUME NEW a \in Accounts, T!LockAndLoad(s, a),
               \/ pc[s] = "lockFirst" /\ a = T!FirstId(draft[s]) /\ T!GoTo(s, "lockSecond")
               \/ pc[s] = "lockSecond" /\ a = T!SecondId(draft[s]) /\ T!GoTo(s, "apply")
        PROVE  LocksInv'
    <2>1. rowLock' = [rowLock EXCEPT ![a] = s] /\ draft' = draft
      BY <1>7 DEF T!LockAndLoad, T!LockRow
    <2>2. \A t \in TransferSessions \ {s} : pc'[t] = pc[t]
      BY <1>2, <1>7 DEF T!GoTo
    <2>3. TransferHolds(s)'
      BY <1>2, <1>7, <2>1 DEF TransferHolds, T!GoTo, T!FirstId
    <2> QED
      BY <1>2, <2>1, <2>2, <2>3, TransferHoldsOn
  <1>8. CASE T!Receive(s)
    BY <1>2, <1>3, <1>8 DEF T!Receive, T!ReceiveTransfer, T!ReceiveReversal, T!GoTo, T!storeVars
  <1>9. CASE T!Return(s)
    BY <1>2, <1>3, <1>9 DEF T!Return, T!GoTo, T!storeVars
  <1>10. CASE T!ExistsById(s) \/ T!FindReversal(s) \/ T!FindPrior(s)
    BY <1>5, <1>6, <1>10 DEF T!ExistsById, T!FindReversal, T!FindPrior
  <1>11. CASE T!FindOriginal(s)
    <2>1. CASE \E outcome : T!Rollback(s, outcome)
      BY <1>5, <2>1
    <2>2. CASE /\ T!GoTo(s, "lockFirst") /\ UNCHANGED T!storeVars
               /\ \E d : draft' = [draft EXCEPT ![s] = d]
      BY <1>2, <1>3, <1>11, <2>2 DEF T!FindOriginal, T!GoTo, T!storeVars
    <2> QED
      BY <1>11, <2>1, <2>2 DEF T!FindOriginal
  <1>12. CASE T!LockFirst(s) \/ T!LockSecond(s)
    BY <1>5, <1>7, <1>12 DEF T!LockFirst, T!LockSecond
  <1>13. CASE T!Apply(s)
    <2>1. CASE T!GoTo(s, "commit") /\ UNCHANGED <<T!storeVars, draft>>
      BY <1>2, <1>3, <2>1 DEF T!GoTo, T!storeVars, T!Statements
    <2> QED
      BY <1>5, <1>13, <2>1 DEF T!Apply
  <1>14. CASE T!Commit(s) \/ T!Crash(s)
    BY <1>4, <1>5, <1>14 DEF T!Commit, T!Crash
  <1> QED
    BY <1>1, <1>8, <1>9, <1>10, <1>11, <1>12, <1>13, <1>14 DEF T!Step

LEMMA CardLocksStep ==
    ASSUME BankInv, LocksInv, C!Next, UNCHANGED transferVars
    PROVE  LocksInv'
  <1>1. PICK s \in CardSessions : C!Receive(s) \/ C!Step(s) \/ C!Crash(s) \/ C!Return(s)
    BY DEF C!Next
  <1>2. /\ at \in [CardSessions -> C!PaymentSteps \cup C!IssueSteps \cup {"idle", "done"}]
        /\ rowLock \in [Accounts -> Sessions \cup {NoSession}]
        /\ s # NoSession /\ CardHolds(s) /\ CardLockTypes
    BY SessionKinds DEF BankInv, CardInv, CardTypes, StoreInv, StoreTypeOK, LocksInv
  \* What one statement does to the locks of s.
  <1>3. ASSUME NEW step, C!GoTo(s, step),
               \/ rowLock' = rowLock
               \/ /\ \E a : rowLock' = [rowLock EXCEPT ![a] = s]
                  /\ step \in {"findCard", "saveCard", "lockLine", "commit"},
               \/ payLock' = payLock
               \/ /\ \E p : payLock' = [payLock EXCEPT ![p] = s]
                  /\ step \in C!PaymentSteps \ {"advisory"},
               \/ cardLock' = cardLock
               \/ /\ \E x : cardLock' = [cardLock EXCEPT ![x] = s]
                  /\ step \in {"lockAccount", "lockLine", "commit"},
               \/ lineLock' = lineLock
               \/ (\E a : lineLock' = [lineLock EXCEPT ![a] = s]) /\ step = "commit",
               at[s] \in C!PaymentSteps \ {"advisory"} => step \in C!PaymentSteps \ {"advisory"},
               at[s] \in {"lockAccount", "lockLine", "commit"} => step \in {"lockLine", "commit"},
               at[s] \in {"findCard", "saveCard"} => step = "saveCard",
               at[s] # "commit"
        PROVE  LocksInv'
    <2>1. at'[s] = step /\ \A t \in CardSessions \ {s} : at'[t] = at[t]
      BY <1>2, <1>3 DEF C!GoTo
    <2>2. /\ \A a \in Accounts : rowLock'[a] \in {rowLock[a], s}
          /\ \A p \in PaymentIds : payLock'[p] \in {payLock[p], s}
          /\ \A x \in C!CardKeys : cardLock'[x] \in {cardLock[x], s}
          /\ \A a \in Accounts : lineLock'[a] \in {lineLock[a], s}
      BY <1>2, <1>3 DEF CardLockTypes
    <2>3. CardLockTypes'
      BY <1>2, <1>3 DEF CardLockTypes
    <2>4. \A p \in PaymentIds : payLock'[p] = s => step \in C!PaymentSteps \ {"advisory"}
      BY <1>2, <1>3 DEF CardHolds
    <2>5. \A x \in C!CardKeys : cardLock'[x] = s => step \in {"lockAccount", "lockLine", "commit"}
      BY <1>2, <1>3 DEF CardHolds
    <2>6. \A a \in Accounts :
             rowLock'[a] = s => step \in {"findCard", "saveCard", "lockLine", "commit"}
      BY <1>2, <1>3 DEF CardHolds
    <2>7. \A a \in Accounts : lineLock'[a] = s => step = "commit"
      BY <1>2, <1>3 DEF CardHolds
    <2>8. CardHolds(s)'
      BY <2>1, <2>4, <2>5, <2>6, <2>7 DEF CardHolds
    <2> QED
      BY <2>1, <2>2, <2>3, <2>8, CardHoldsOn
  <1>4. ASSUME NEW outcome, C!Finish(s, outcome) PROVE LocksInv'
    <2>1. /\ rowLock' = [a \in Accounts |-> IF rowLock[a] = s THEN NoSession ELSE rowLock[a]]
          /\ payLock' = [p \in PaymentIds |-> IF payLock[p] = s THEN NoSession ELSE payLock[p]]
          /\ cardLock' = [x \in C!CardKeys |-> IF cardLock[x] = s THEN NoSession ELSE cardLock[x]]
          /\ lineLock' = [a \in Accounts |-> IF lineLock[a] = s THEN NoSession ELSE lineLock[a]]
          /\ C!GoTo(s, "done")
      BY <1>2, <1>4 DEF C!Finish, C!ReleaseRows, C!FreedBy, CardLockTypes
    <2>2. \A t \in CardSessions \ {s} : at'[t] = at[t]
      BY <1>2, <2>1 DEF C!GoTo
    <2>3. CardLockTypes'
      BY <1>2, <2>1 DEF CardLockTypes
    <2>4. CardHolds(s)'
      BY <1>2, <2>1 DEF CardHolds
    <2> QED
      BY <2>1, <2>2, <2>3, <2>4, CardHoldsOn
  <1>5. ASSUME NEW outcome, C!Rollback(s, outcome) PROVE LocksInv'
    BY <1>4, <1>5 DEF C!Rollback
  <1>6. ASSUME NEW step, C!GoTo(s, step), at[s] \in {"idle", "done"},
               UNCHANGED <<rowLock, payLock, cardLock, lineLock>>
        PROVE  LocksInv'
    BY <1>3, <1>6, CardSteps
  <1>7. CASE C!Receive(s) \/ C!Return(s)
    BY <1>6, <1>7 DEF C!Receive, C!Return, C!ReceivePayment, C!ReceiveIssue, C!storeVars
  <1>8. CASE C!AcquirePaymentLock(s)
    <2>1. at[s] = "advisory" /\ C!GoTo(s, "findPayment") /\ UNCHANGED <<rowLock, cardLock, lineLock>>
          /\ payLock' = [payLock EXCEPT ![job[s].id] = s]
      BY <1>8 DEF C!AcquirePaymentLock
    <2> QED
      BY <1>3, <2>1, CardSteps
  <1>9. CASE C!FindPayment(s)
    <2>1. ASSUME NEW step \in {"lockCard", "commit"}, C!GoTo(s, step)
          PROVE  UNCHANGED <<rowLock, payLock, cardLock, lineLock>> /\ at[s] = "findPayment"
                 => LocksInv'
      BY <1>3, <2>1, CardSteps
    <2> QED
      BY <1>5, <1>9, <2>1 DEF C!FindPayment, C!Decide
  <1>10. CASE C!LockCard(s)
    <2>1. ASSUME NEW step \in {"lockAccount", "commit"}, C!GoTo(s, step), at[s] = "lockCard",
                 cardLock' = cardLock \/ \E x : cardLock' = [cardLock EXCEPT ![x] = s],
                 UNCHANGED <<rowLock, payLock, lineLock>>
          PROVE  LocksInv'
      BY <1>3, <2>1, CardSteps
    <2> QED
      BY <1>10, <2>1 DEF C!LockCard, C!Decide
  <1>11. CASE C!LockAccount(s)
    <2>1. ASSUME NEW step \in {"lockLine", "commit"}, C!GoTo(s, step), at[s] = "lockAccount",
                 NEW a, rowLock' = [rowLock EXCEPT ![a] = s],
                 UNCHANGED <<payLock, cardLock, lineLock>>
          PROVE  LocksInv'
      BY <1>3, <2>1, CardSteps
    <2> QED
      BY <1>11, <2>1 DEF C!LockAccount, C!Decide, C!LockRow
  <1>12. CASE C!LockLine(s)
    <2>1. /\ at[s] = "lockLine" /\ C!GoTo(s, "commit") /\ UNCHANGED <<rowLock, payLock, cardLock>>
          /\ lineLock' = [lineLock EXCEPT ![C!Owner(job[s])] = s]
      BY <1>12 DEF C!LockLine, C!Decide
    <2> QED
      BY <1>3, <2>1, CardSteps
  <1>13. CASE C!LockOwner(s)
    <2>1. /\ at[s] = "lockOwner" /\ C!GoTo(s, "findCard")
          /\ UNCHANGED <<payLock, cardLock, lineLock>>
          /\ rowLock' = [rowLock EXCEPT ![C!Owner(job[s])] = s]
      BY <1>13 DEF C!LockOwner, C!LockRow
    <2> QED
      BY <1>3, <2>1, CardSteps
  <1>14. CASE C!FindCard(s)
    <2>1. ASSUME at[s] = "findCard", C!GoTo(s, "saveCard"),
                 UNCHANGED <<rowLock, payLock, cardLock, lineLock>>
          PROVE  LocksInv'
      BY <1>3, <2>1, CardSteps
    <2> QED
      BY <1>5, <1>14, <2>1 DEF C!FindCard
  <1>15. CASE C!CommitPayment(s) \/ C!SaveCard(s) \/ C!Crash(s)
    BY <1>4, <1>5, <1>15 DEF C!CommitPayment, C!SaveCard, C!Crash
  <1> QED
    BY <1>1, <1>7, <1>8, <1>9, <1>10, <1>11, <1>12, <1>13, <1>14, <1>15 DEF C!Step, C!WaitStep

LEMMA LocksInvariance == Spec => []LocksInv
  <1>1. Init => LocksInv
    BY SessionKinds DEF Init, StoreInit, C!CardInit, LocksInv, CardLockTypes, TransferHolds, CardHolds
  <1>2. BankInv /\ LocksInv /\ [Next]_vars => LocksInv'
    <2> SUFFICES ASSUME BankInv, LocksInv, [Next]_vars PROVE LocksInv'
      OBVIOUS
    <2>1. CASE UNCHANGED vars
      BY <2>1 DEF vars, storeVars, transferVars, cardVars, LocksInv, CardLockTypes, TransferHolds,
                  CardHolds, T!FirstId
    <2> QED
      BY <2>1, TransferLocksStep, CardLocksStep DEF Next
  <1> QED
    BY <1>1, <1>2, BankInvariance, PTL DEF Spec

\* Of finitely many accounts one has the highest id.
LEMMA HighestAccount ==
    ASSUME NEW R \in SUBSET Accounts, R # {}
    PROVE  \E a \in R : \A b \in R : ~ (b > a)
  <1> DEFINE above(c) == {x \in R : x > c}
             D == {above(c) : c \in R}
  <1>1. IsFiniteSet(R) /\ D \in SUBSET SUBSET R /\ D # {}
    <2>1. IsFiniteSet(R)
      BY IdsAssumption, FS_Subset
    <2>2. \A c \in R : above(c) \in SUBSET R
      OBVIOUS
    <2> QED
      BY <2>1, <2>2
  <1>2. PICK V \in D : \A U \in D : U \subseteq V => U = V
    <2> HIDE DEF D
    <2> QED
      BY <1>1, SmallestSubset
  <1>3. PICK a \in R : V = above(a)
    BY <1>2
  <1>4. ASSUME NEW b \in R, b > a PROVE FALSE
    <2>1. a \in Nat /\ b \in Nat /\ \A x \in R : x \in Nat
      BY StoreAssumption
    <2>2. above(b) \subseteq above(a) /\ b \in above(a) /\ b \notin above(b)
      <3>1. \A x \in R : x > b => x > a
        BY <1>4, <2>1
      <3>2. ~ (b > b)
        BY <2>1
      <3> QED
        BY <1>4, <3>1, <3>2
    <2> QED
      BY <1>2, <1>3, <2>2
  <1> QED
    BY <1>4

\* No two sessions of account-service, nor any number of them in a circle, wait
\* for each other, whichever of its transactions they run; a lock is never left
\* behind.  Every wait is for a lock that comes later in one order than all the
\* locks the waiting session holds.
\* AccountService.java:105-108, 137-140, CardService.java:41, 89, 110, 121, 143.
THEOREM NoCircleOfWaits == Spec => []WaitsEnd
  <1>1. BankInv /\ LocksInv => WaitsEnd
    <2> SUFFICES ASSUME BankInv, LocksInv PROVE WaitsEnd
      OBVIOUS
    <2>1. /\ \A t \in TransferSessions : TransferHolds(t) /\ ValidDraft(t)
          /\ \A t \in CardSessions : CardHolds(t)
          /\ CardLockTypes
          /\ rowLock \in [Accounts -> Sessions \cup {NoSession}]
          /\ draft \in [TransferSessions -> T!TransferRecord]
      BY DEF BankInv, TransferInv, T!ServiceTypeOK, LocksInv, StoreInv, StoreTypeOK
    \* The locks of each kind, and what their holder may still wait for.
    <2>2. ASSUME NEW t \in Sessions, NEW a, Holds(t, rowLock, a)
          PROVE  /\ a \in Accounts
                 /\ t \in TransferSessions => \/ pc[t] = "lockSecond" /\ a = T!FirstId(draft[t])
                                              \/ pc[t] \in {"apply", "commit"}
                 /\ t \in CardSessions => at[t] \in {"findCard", "saveCard", "lockLine", "commit"}
      BY <2>1, <2>2 DEF Holds, TransferHolds, CardHolds
    <2>3. ASSUME NEW t \in Sessions, NEW a, Holds(t, lineLock, a)
          PROVE  t \in CardSessions /\ at[t] = "commit"
      BY <2>1, <2>3, StoreAssumption DEF Holds, CardHolds, CardLockTypes
    <2>4. ASSUME NEW t \in Sessions, NEW x, Holds(t, cardLock, x)
          PROVE  t \in CardSessions /\ at[t] \in {"lockAccount", "lockLine", "commit"}
      BY <2>1, <2>4, StoreAssumption DEF Holds, CardHolds, CardLockTypes
    <2>5. ASSUME NEW t \in Sessions, NEW p, Holds(t, payLock, p)
          PROVE  t \in CardSessions /\ at[t] \in C!PaymentSteps \ {"advisory"}
      BY <2>1, <2>5, StoreAssumption DEF Holds, CardHolds, CardLockTypes
    <2>6. ASSUME NEW s \in Sessions, NEW t \in Sessions, Awaits(s, t) PROVE Served(t)
      <3>1. \E x : \/ Holds(t, rowLock, x) \/ Holds(t, lineLock, x)
                   \/ Holds(t, cardLock, x) \/ Holds(t, payLock, x)
        BY <2>6 DEF Awaits, TransferAwaits, CardAwaits
      <3>2. t \in TransferSessions \/ t \in CardSessions
        BY SessionsAssumption
      <3> QED
        BY <2>2, <2>3, <2>4, <2>5, <3>1, <3>2, CardSteps
           DEF Served, T!Serving, T!Statements, C!Busy
    <2>7. ASSUME NEW D \in (SUBSET Sessions) \ {{}}, \A s \in D : \E t \in D : Awaits(s, t)
          PROVE  FALSE
      <3> DEFINE AwaitsRow(s, a) ==
                   \/ s \in TransferSessions /\ pc[s] = "lockFirst" /\ a = T!FirstId(draft[s])
                   \/ s \in TransferSessions /\ pc[s] = "lockSecond" /\ a = T!SecondId(draft[s])
                   \/ /\ s \in CardSessions /\ at[s] \in {"lockAccount", "lockOwner"}
                      /\ a = C!Owner(job[s])
                 R == {b \in Accounts : \E s, t \in D : AwaitsRow(s, b) /\ Holds(t, rowLock, b)}
      <3>1. \A s \in D : s \in Sessions
        OBVIOUS
      <3>2. ASSUME NEW s \in D, s \in CardSessions, at[s] = "commit" PROVE FALSE
        BY <2>7, <3>2, SessionKinds DEF Awaits, CardAwaits
      <3>3. ASSUME NEW s \in D, s \in CardSessions, at[s] = "lockLine" PROVE FALSE
        <4>1. PICK t \in D : Holds(t, lineLock, C!Owner(job[s]))
          BY <2>7, <3>3, SessionKinds DEF Awaits, CardAwaits
        <4> QED
          BY <2>3, <3>1, <3>2, <4>1
      <3>4. R = {}
        <4> SUFFICES ASSUME R # {} PROVE FALSE
          OBVIOUS
        <4>1. PICK a \in R : \A b \in R : ~ (b > a)
          <5>1. R \in SUBSET Accounts
            OBVIOUS
          <5> HIDE DEF R
          <5> QED
            BY <5>1, HighestAccount
        <4>2. PICK t \in D : Holds(t, rowLock, a)
          BY <4>1
        <4>3. t \in TransferSessions
          <5>1. t \in CardSessions => at[t] \in {"findCard", "saveCard", "lockLine", "commit"}
            BY <2>2, <3>1, <4>2
          <5>2. t \in CardSessions => at[t] \notin {"findCard", "saveCard"}
            BY <2>7, SessionKinds DEF Awaits, CardAwaits
          <5> QED
            BY <3>1, <3>2, <3>3, <5>1, <5>2, SessionsAssumption
        <4>4. PICK u \in D : TransferAwaits(t, u)
          BY <2>7, <4>3, SessionKinds DEF Awaits
        <4>5. pc[t] = "lockSecond" /\ a = T!FirstId(draft[t])
              /\ Holds(u, rowLock, T!SecondId(draft[t]))
          BY <2>2, <3>1, <4>2, <4>3, <4>4 DEF TransferAwaits
        <4>6. draft[t].source \in Nat /\ draft[t].destination \in Nat
              /\ draft[t].source # draft[t].destination
          BY <2>1, <4>3, <4>5 DEF T!TransferRecord, ValidDraft
        <4>7. T!SecondId(draft[t]) > T!FirstId(draft[t])
          BY <4>6 DEF T!FirstId, T!SecondId
        <4>8. T!SecondId(draft[t]) \in Accounts
          BY <2>2, <3>1, <4>5
        <4>9. T!SecondId(draft[t]) \in R
          BY <4>3, <4>5, <4>8
        <4> QED
          BY <4>1, <4>5, <4>7, <4>9
      <3>5. ASSUME NEW s \in D, NEW t \in D, NEW a, AwaitsRow(s, a), Holds(t, rowLock, a)
            PROVE  FALSE
        <4>1. a \in Accounts
          BY <2>2, <3>1, <3>5
        <4> QED
          BY <3>4, <3>5, <4>1
      <3> HIDE DEF R
      <3>6. \A s \in D : s \in CardSessions /\ at[s] \in {"advisory", "lockCard"}
        <4> SUFFICES ASSUME NEW s \in D PROVE s \in CardSessions /\ at[s] \in {"advisory", "lockCard"}
          OBVIOUS
        <4>1. PICK t \in D : Awaits(s, t)
          BY <2>7
        <4> QED
          BY <3>3, <3>5, <4>1 DEF Awaits, TransferAwaits, CardAwaits
      <3>7. \A s \in D : at[s] = "advisory"
        <4> SUFFICES ASSUME NEW s \in D, at[s] = "lockCard" PROVE FALSE
          BY <3>6
        <4>1. PICK t \in D : Holds(t, cardLock, job[s].card)
          BY <2>7, <3>6, SessionKinds DEF Awaits, CardAwaits
        <4> QED
          BY <2>4, <3>1, <3>6, <4>1
      <3>8. PICK s \in D : TRUE
        OBVIOUS
      <3>9. PICK t \in D : Holds(t, payLock, job[s].id)
        BY <2>7, <3>6, <3>7, SessionKinds DEF Awaits, CardAwaits
      <3> QED
        BY <2>5, <3>1, <3>7, <3>9
    <2> QED
      BY <2>6, <2>7 DEF WaitsEnd
  <1> QED
    BY <1>1, BankInvariance, LocksInvariance, PTL
=============================================================================
