---------------------- MODULE TransactionServiceProofs ----------------------
(***************************************************************************)
(* account-service and the coordinator in front of it, for any accounts,   *)
(* clients, handlers, sessions, keys and requests.                         *)
(*                                                                         *)
(* First AccountService alone: IInv adds to the properties what a session  *)
(* knows while it runs (that its draft is well formed, that it holds the   *)
(* rows it has loaded, what its entities hold); KeyInv, what an            *)
(* Idempotency-Key is worth: a key outside overlapped is served by one     *)
(* session at a time, which has found it unused.                           *)
(*                                                                         *)
(* Then TransactionService: every step of it is a step of AccountService   *)
(* or leaves account-service alone, so IInv and KeyInv hold behind it, and *)
(* CoordInv adds what is known on the way from a post to its row, its call *)
(* and its answer.                                                         *)
(***************************************************************************)
EXTENDS TransactionService, TLAPS

(* What AccountService guarantees by itself *)

\* A serving session carries a key, and what it will save is a valid movement
\* once transfer's checks passed or the original was read.
DraftInv ==
    \A s \in Sessions :
        /\ Serving(s) => key[s] \in KeyIds
        /\ pc[s] \in {"findReversal", "findPrior", "findOriginal"} =>
              draft[s].reversalOf \in KeyIds
        /\ pc[s] \in {"existsById", "lockFirst", "lockSecond", "apply", "commit"} =>
              draft[s].source # draft[s].destination /\ draft[s].amount > 0

\* Every stored record is a valid movement.
RecordInv ==
    \A k \in KeyIds :
        Recorded(k) => /\ transfers[k].source # transfers[k].destination
                       /\ transfers[k].amount > 0

\* The rows a session has loaded are locked by it; after Apply its entities
\* hold the new balances.
HoldsItsRows(s) ==
    /\ pc[s] = "lockSecond" =>
              /\ FirstId(draft[s]) \in Accounts
              /\ rowLock[FirstId(draft[s])] = s
              /\ entity[s][FirstId(draft[s])] = balance[FirstId(draft[s])]
    /\ pc[s] \in {"apply", "commit"} =>
              /\ draft[s].source \in Accounts /\ draft[s].destination \in Accounts
              /\ rowLock[draft[s].source] = s /\ rowLock[draft[s].destination] = s
    /\ pc[s] = "apply" =>
              /\ entity[s][draft[s].source] = balance[draft[s].source]
              /\ entity[s][draft[s].destination] = balance[draft[s].destination]
    /\ pc[s] = "commit" =>
              /\ balance[draft[s].source] >= draft[s].amount
              /\ entity[s][draft[s].source] = balance[draft[s].source] - draft[s].amount
              /\ entity[s][draft[s].destination] =
                    balance[draft[s].destination] + draft[s].amount

LockInv == \A s \in Sessions : HoldsItsRows(s)

IInv == TypeOK /\ DraftInv /\ RecordInv /\ LockInv /\ NoDivergentAccount

-----------------------------------------------------------------------------
\* The opening balances are journaled and nothing is locked or loaded.
LEMMA InitIInv == Init => IInv
  <1> SUFFICES ASSUME Init PROVE IInv
    OBVIOUS
  <1> USE StoreAssumption, ServiceAssumption DEF Init, StoreInit, ServiceInit
  <1>1. TypeOK
    BY DEF TypeOK, StoreTypeOK, ServiceTypeOK, TransferRecord, NoRecord,
           Statements, Replies, NoEntity, System
  <1>2. DraftInv /\ LockInv
    BY DEF DraftInv, LockInv, HoldsItsRows, Serving, Statements
  <1>3. RecordInv
    BY DEF RecordInv, Recorded
  <1>4. NoDivergentAccount
    BY DEF NoDivergentAccount, System
  <1> QED
    BY <1>1, <1>2, <1>3, <1>4 DEF IInv

\* A rollback changes no committed row, and releases only its own locks.
LEMMA RollbackIInv ==
    ASSUME IInv, NEW s \in Sessions, NEW answer \in Replies, Rollback(s, answer)
    PROVE  IInv'
  <1> USE DEF IInv, Rollback, Finish, ReleaseRows, GoTo
  <1>1. TypeOK'
    BY StoreAssumption DEF TypeOK, StoreTypeOK, ServiceTypeOK, TransferRecord,
           NoRecord, Statements, Replies, NoEntity
  <1>2. \A t \in Sessions : t # s => pc'[t] = pc[t] /\ draft'[t] = draft[t]
                                     /\ entity'[t] = entity[t] /\ key'[t] = key[t]
    BY DEF TypeOK, ServiceTypeOK
  <1>3. pc'[s] = "done"
    BY DEF TypeOK, ServiceTypeOK
  <1>4. DraftInv'
    BY <1>2, <1>3 DEF DraftInv, Serving, Statements
  <1>5. RecordInv'
    BY DEF RecordInv, Recorded
  <1>6. \A a \in Accounts, t \in Sessions : t # s /\ rowLock[a] = t => rowLock'[a] = t
    OBVIOUS
  <1>7. LockInv'
    BY <1>2, <1>3, <1>6 DEF LockInv, HoldsItsRows, FirstId
  <1>8. NoDivergentAccount'
    BY DEF NoDivergentAccount
  <1> QED
    BY <1>1, <1>4, <1>5, <1>7, <1>8

\* A read that finds nothing only moves the session to a statement that asks
\* no more of its draft than the one before.
LEMMA ProceedIInv ==
    ASSUME IInv, NEW s \in Sessions, NEW statement \in Statements,
           Proceed(s, statement), Serving(s),
           \/ pc[s] = "existsById" /\ statement = "lockFirst"
           \/ pc[s] = "findReversal" /\ statement = "findPrior"
           \/ pc[s] = "findPrior" /\ statement = "findOriginal"
    PROVE  IInv'
  <1> USE DEF IInv, Proceed, GoTo, storeVars
  <1>1. TypeOK'
    BY DEF TypeOK, StoreTypeOK, ServiceTypeOK
  <1>2. pc' = [pc EXCEPT ![s] = statement] /\ pc \in [Sessions -> Statements \cup {"idle", "done"}]
    BY DEF TypeOK, ServiceTypeOK
  <1>3. DraftInv'
    BY <1>2 DEF DraftInv, Serving, Statements
  <1>4. RecordInv'
    BY DEF RecordInv, Recorded
  <1>5. LockInv'
    BY <1>2 DEF LockInv, HoldsItsRows, FirstId
  <1>6. NoDivergentAccount'
    BY DEF NoDivergentAccount
  <1> QED
    BY <1>1, <1>3, <1>4, <1>5, <1>6

\* What passes transfer's checks is a valid movement; no row is loaded yet.
LEMMA ReceiveTransferIInv ==
    ASSUME IInv, NEW s \in Sessions, NEW r \in Transfers, ReceiveTransfer(s, r)
    PROVE  IInv'
  <1> USE DEF IInv, ReceiveTransfer, GoTo, storeVars
  <1>0. r \in TransferRequest /\ r.id \in KeyIds /\ r.source \in Nat
        /\ r.destination \in Nat /\ r.amount \in Int
    BY ServiceAssumption DEF TransferRequest, KeyIds
  <1>1. TypeOK'
    <2>1. StoreTypeOK'
      BY DEF TypeOK, StoreTypeOK
    <2>2. overlapped' \subseteq KeyIds
      BY <1>0 DEF TypeOK, ServiceTypeOK, Overlap
    <2>3. [source |-> r.source, destination |-> r.destination, amount |-> r.amount,
           reversalOf |-> NoId] \in TransferRecord
      BY <1>0 DEF TransferRecord
    <2>4. draft' \in [Sessions -> TransferRecord]
      BY <2>3 DEF TypeOK, ServiceTypeOK
    <2>5. ServiceTypeOK'
      BY <1>0, <2>2, <2>4 DEF TypeOK, ServiceTypeOK, Statements, Replies
    <2> QED
      BY <2>1, <2>5 DEF TypeOK
  <1>2. DraftInv'
    BY <1>0 DEF DraftInv, Serving, Statements, TypeOK, ServiceTypeOK
  <1>3. RecordInv'
    BY DEF RecordInv, Recorded
  <1>4. LockInv'
    BY DEF LockInv, HoldsItsRows, FirstId, TypeOK, ServiceTypeOK
  <1>5. NoDivergentAccount'
    BY DEF NoDivergentAccount
  <1> QED
    BY <1>1, <1>2, <1>3, <1>4, <1>5

\* A reversal arrives knowing only which key it reverses.
LEMMA ReceiveReversalIInv ==
    ASSUME IInv, NEW s \in Sessions, NEW id \in ReversalIds, NEW of \in KeyIds,
           ReceiveReversal(s, id, of)
    PROVE  IInv'
  <1> USE DEF IInv, ReceiveReversal, GoTo, storeVars
  <1>1. TypeOK'
    <2>1. StoreTypeOK'
      BY DEF TypeOK, StoreTypeOK
    <2>2. id \in KeyIds /\ overlapped' \subseteq KeyIds
      BY DEF TypeOK, ServiceTypeOK, Overlap, KeyIds
    <2>3. [NoRecord EXCEPT !.reversalOf = of] \in TransferRecord
      BY DEF TransferRecord, NoRecord
    <2>4. draft' \in [Sessions -> TransferRecord]
      BY <2>3 DEF TypeOK, ServiceTypeOK
    <2>5. ServiceTypeOK'
      BY <2>2, <2>4 DEF TypeOK, ServiceTypeOK, Statements
    <2> QED
      BY <2>1, <2>5 DEF TypeOK
  <1>2. DraftInv'
    BY DEF DraftInv, Serving, Statements, KeyIds, TypeOK, ServiceTypeOK
  <1>3. RecordInv'
    BY DEF RecordInv, Recorded
  <1>4. LockInv'
    BY DEF LockInv, HoldsItsRows, FirstId, TypeOK, ServiceTypeOK
  <1>5. NoDivergentAccount'
    BY DEF NoDivergentAccount
  <1> QED
    BY <1>1, <1>2, <1>3, <1>4, <1>5

\* The draft of a reversal is valid because the stored original is.
LEMMA FindOriginalIInv ==
    ASSUME IInv, NEW s \in Sessions, FindOriginal(s)
    PROVE  IInv'
  <1> DEFINE of == draft[s].reversalOf
             original == transfers[of]
  <1>1. CASE Rollback(s, "NOT_FOUND") \/ Rollback(s, "INVALID")
    BY <1>1, RollbackIInv DEF Replies
  <1>2. CASE /\ Recorded(of)
             /\ GoTo(s, "lockFirst")
             /\ draft' = [draft EXCEPT ![s] =
                             [source |-> original.destination,
                              destination |-> original.source,
                              amount |-> original.amount, reversalOf |-> of]]
             /\ UNCHANGED <<storeVars, transfers, key, entity, found, reply, overlapped>>
    <2> USE <1>2, FindOriginal(s) DEF IInv, GoTo, storeVars
    <2>1. of \in KeyIds /\ pc[s] = "findOriginal"
      BY DEF DraftInv, FindOriginal
    <2>2. original \in TransferRecord
      BY <2>1 DEF TypeOK, ServiceTypeOK
    <2>3. TypeOK'
      <3>1. StoreTypeOK'
        BY DEF TypeOK, StoreTypeOK
      <3>2. ServiceTypeOK'
        BY <2>1, <2>2 DEF TypeOK, ServiceTypeOK, TransferRecord, Statements
      <3> QED
        BY <3>1, <3>2 DEF TypeOK
    <2>4. DraftInv'
      BY <2>1 DEF DraftInv, RecordInv, Serving, Statements, TypeOK, ServiceTypeOK
    <2>5. RecordInv'
      BY DEF RecordInv, Recorded
    <2>6. LockInv'
      BY DEF LockInv, HoldsItsRows, FirstId, TypeOK, ServiceTypeOK
    <2>7. NoDivergentAccount'
      BY DEF NoDivergentAccount
    <2> QED
      BY <2>3, <2>4, <2>5, <2>6, <2>7
  <1> QED
    BY <1>1, <1>2 DEF FindOriginal

\* The first row was free, so taking it disturbs no other session.
LEMMA LockFirstIInv ==
    ASSUME IInv, NEW s \in Sessions, LockFirst(s)
    PROVE  IInv'
  <1> DEFINE a == FirstId(draft[s])
  <1>1. CASE Rollback(s, "NOT_FOUND")
    BY <1>1, RollbackIInv DEF Replies
  <1>2. CASE a \in Accounts /\ LockAndLoad(s, a) /\ GoTo(s, "lockSecond")
    <2> USE <1>2, LockFirst(s) DEF IInv, GoTo, LockAndLoad, LockRow
    <2>1. TypeOK'
      <3>1. StoreTypeOK'
        BY DEF TypeOK, StoreTypeOK
      <3>2. ServiceTypeOK'
        BY DEF TypeOK, StoreTypeOK, ServiceTypeOK, Statements
      <3> QED
        BY <3>1, <3>2 DEF TypeOK
    <2>2. DraftInv'
      BY DEF DraftInv, LockFirst, Serving, Statements, TypeOK, ServiceTypeOK
    <2>3. RecordInv'
      BY DEF RecordInv, Recorded
    <2>4. LockInv'
      BY StoreAssumption DEF LockInv, HoldsItsRows, FirstId, TypeOK, StoreTypeOK, ServiceTypeOK
    <2>5. NoDivergentAccount'
      BY DEF NoDivergentAccount
    <2> QED
      BY <2>1, <2>2, <2>3, <2>4, <2>5
  <1> QED
    BY <1>1, <1>2 DEF LockFirst

\* The second row is another row: the two accounts of a draft differ.
LEMMA LockSecondIInv ==
    ASSUME IInv, NEW s \in Sessions, LockSecond(s)
    PROVE  IInv'
  <1> DEFINE a == SecondId(draft[s])
  <1>1. CASE Rollback(s, "NOT_FOUND")
    BY <1>1, RollbackIInv DEF Replies
  <1>2. CASE a \in Accounts /\ LockAndLoad(s, a) /\ GoTo(s, "apply")
    <2> USE <1>2, LockSecond(s) DEF IInv, GoTo, LockAndLoad, LockRow
    <2>1. TypeOK'
      <3>1. StoreTypeOK'
        BY DEF TypeOK, StoreTypeOK
      <3>2. ServiceTypeOK'
        BY DEF TypeOK, StoreTypeOK, ServiceTypeOK, Statements
      <3> QED
        BY <3>1, <3>2 DEF TypeOK
    <2>2. DraftInv'
      BY DEF DraftInv, LockSecond, Serving, Statements, TypeOK, ServiceTypeOK
    <2>3. RecordInv'
      BY DEF RecordInv, Recorded
    <2>4. LockInv'
      <3>1. draft[s].source # draft[s].destination /\ pc[s] = "lockSecond"
        BY DEF DraftInv, LockSecond
      <3>2. a # FirstId(draft[s])
            /\ {a, FirstId(draft[s])} = {draft[s].source, draft[s].destination}
        BY <3>1 DEF SecondId, FirstId
      <3>3. rowLock'[a] = s /\ entity'[s][a] = balance[a]
        BY DEF TypeOK, StoreTypeOK, ServiceTypeOK
      <3>4. \A b \in Accounts : rowLock[b] # NoSession => rowLock'[b] = rowLock[b]
        BY DEF TypeOK, StoreTypeOK
      <3>5. \A t \in Sessions : t # s => pc'[t] = pc[t] /\ entity'[t] = entity[t]
        BY DEF TypeOK, ServiceTypeOK
      <3>6. pc'[s] = "apply" /\ entity'[s] = [entity[s] EXCEPT ![a] = balance[a]]
        BY DEF TypeOK, ServiceTypeOK
      <3>7. entity[s] \in [Accounts -> Int]
        BY DEF TypeOK, ServiceTypeOK
      <3> QED
        BY <3>1, <3>2, <3>3, <3>4, <3>5, <3>6, <3>7, StoreAssumption
           DEF LockInv, HoldsItsRows, FirstId
    <2>5. NoDivergentAccount'
      BY DEF NoDivergentAccount
    <2> QED
      BY <2>1, <2>2, <2>3, <2>4, <2>5
  <1> QED
    BY <1>1, <1>2 DEF LockSecond

\* A session keeps holding its rows through a step that touches neither its own
\* state nor the rows.
LEMMA HoldsItsRowsStable ==
    ASSUME NEW t \in Sessions, HoldsItsRows(t), UNCHANGED <<draft, rowLock, balance>>,
           pc'[t] = pc[t], entity'[t] = entity[t]
    PROVE  HoldsItsRows(t)'
  BY DEF HoldsItsRows, FirstId

\* The movement is computed from current rows, and the balance covers it.
LEMMA ApplyIInv ==
    ASSUME IInv, NEW s \in Sessions, Apply(s)
    PROVE  IInv'
  <1> DEFINE r == draft[s]
  <1>1. CASE Rollback(s, "INSUFFICIENT_FUNDS")
    BY <1>1, RollbackIInv DEF Replies
  <1>2. CASE /\ entity[s][r.source] >= r.amount
             /\ entity' = [entity EXCEPT ![s][r.source] = @ - r.amount,
                                         ![s][r.destination] = @ + r.amount]
             /\ found' = [found EXCEPT ![s] = Recorded(key[s])]
             /\ GoTo(s, "commit")
             /\ UNCHANGED <<storeVars, transfers, key, draft, reply, overlapped>>
    <2> USE <1>2, Apply(s) DEF IInv, GoTo, storeVars
    <2>1. /\ pc[s] = "apply" /\ r.source \in Accounts /\ r.destination \in Accounts
          /\ r.source # r.destination /\ r \in TransferRecord /\ r.amount \in Int
          /\ entity[s] \in [Accounts -> Int]
      BY DEF Apply, LockInv, HoldsItsRows, DraftInv, TypeOK, ServiceTypeOK, TransferRecord
    <2>2. entity'[s] = [entity[s] EXCEPT ![r.source] = entity[s][r.source] - r.amount,
                                         ![r.destination] = entity[s][r.destination] + r.amount]
      BY <2>1 DEF TypeOK, ServiceTypeOK
    <2>3. TypeOK'
      <3>1. StoreTypeOK'
        BY DEF TypeOK, StoreTypeOK
      <3>2. entity' \in [Sessions -> [Accounts -> Int]]
        BY <2>1, <2>2 DEF TypeOK, ServiceTypeOK
      <3>3. found' \in [Sessions -> BOOLEAN]
        BY DEF TypeOK, ServiceTypeOK, Recorded
      <3>4. pc' \in [Sessions -> Statements \cup {"idle", "done"}]
        BY DEF TypeOK, ServiceTypeOK, Statements
      <3> QED
        BY <3>1, <3>2, <3>3, <3>4 DEF TypeOK, ServiceTypeOK
    <2>4. DraftInv'
      BY <2>1 DEF DraftInv, Serving, Statements, TypeOK, ServiceTypeOK
    <2>5. RecordInv'
      BY DEF RecordInv, Recorded
    <2>6. LockInv'
      <3>1. \A t \in Sessions : t # s => pc'[t] = pc[t] /\ entity'[t] = entity[t]
        BY DEF TypeOK, ServiceTypeOK
      <3>2. pc'[s] = "commit"
        BY DEF TypeOK, ServiceTypeOK
      <3>3. /\ rowLock[r.source] = s /\ rowLock[r.destination] = s
            /\ entity[s][r.source] = balance[r.source]
            /\ entity[s][r.destination] = balance[r.destination]
        BY <2>1 DEF LockInv, HoldsItsRows
      <3>4. /\ balance[r.source] >= r.amount
            /\ entity'[s][r.source] = balance[r.source] - r.amount
            /\ entity'[s][r.destination] = balance[r.destination] + r.amount
        BY <2>1, <2>2, <3>3
      <3>5. draft' = draft /\ rowLock' = rowLock /\ balance' = balance
        OBVIOUS
      <3>6. HoldsItsRows(s)'
        BY <2>1, <3>2, <3>3, <3>4, <3>5 DEF HoldsItsRows
      <3>7. ASSUME NEW t \in Sessions, t # s PROVE HoldsItsRows(t)'
        BY <3>7, <3>1, <3>5, HoldsItsRowsStable DEF LockInv
      <3> QED
        BY <3>6, <3>7 DEF LockInv
    <2>7. NoDivergentAccount'
      BY DEF NoDivergentAccount
    <2> QED
      BY <2>3, <2>4, <2>5, <2>6, <2>7
  <1> QED
    BY <1>1, <1>2 DEF Apply

\* The commit writes rows that only s holds, so no other session's entities go
\* stale, and adds to each balance what it adds to the account's entries.
LEMMA CommitIInv ==
    ASSUME IInv, NEW s \in Sessions, Commit(s)
    PROVE  IInv'
  <1> DEFINE r == draft[s]
  <1>1. CASE Rollback(s, "ERROR")
    BY <1>1, RollbackIInv DEF Replies
  <1>2. CASE /\ WriteBalances({r.source, r.destination}, entity[s])
             /\ PostEntries(key[s], r.source, r.destination, r.amount)
             /\ transfers' = [transfers EXCEPT ![key[s]] = r]
             /\ Finish(s, "COMPLETED")
    <2> USE <1>2 DEF IInv, Finish, GoTo
    <2>1. /\ pc[s] = "commit" /\ r \in TransferRecord /\ key[s] \in KeyIds
          /\ r.source \in Accounts /\ r.destination \in Accounts
          /\ r.source # r.destination /\ r.amount > 0 /\ r.amount \in Int
          /\ rowLock[r.source] = s /\ rowLock[r.destination] = s
      BY Commit(s) DEF Commit, LockInv, HoldsItsRows, DraftInv, TypeOK, ServiceTypeOK, TransferRecord,
                       Serving, Statements
    <2>2. /\ balance \in [Accounts -> Nat] /\ balance' \in [Accounts -> Int]
          /\ \A a \in Accounts :
                 balance'[a] = IF a = r.source THEN balance[a] - r.amount
                               ELSE IF a = r.destination THEN balance[a] + r.amount
                               ELSE balance[a]
          /\ balance[r.source] >= r.amount
      BY <2>1 DEF WriteBalances, LockInv, HoldsItsRows, TypeOK, StoreTypeOK, ServiceTypeOK
    <2>3. balance' \in [Accounts -> Nat]
      BY <2>1, <2>2
    <2>4. /\ ledgerOf' \in [Accounts \cup {System} -> Int]
          /\ \A a \in Accounts :
                 ledgerOf'[a] = IF a = r.source THEN ledgerOf[a] - r.amount
                                ELSE IF a = r.destination THEN ledgerOf[a] + r.amount
                                ELSE ledgerOf[a]
      BY <2>1 DEF PostEntries, TypeOK, StoreTypeOK
    <2>5. moved' \in [Journals -> Nat]
      BY <2>1, ServiceAssumption DEF PostEntries, TypeOK, StoreTypeOK
    <2>6. rowLock' \in [Accounts -> Sessions \cup {NoSession}]
      BY DEF ReleaseRows, TypeOK, StoreTypeOK
    <2>7. ServiceTypeOK'
      <3>1. transfers' \in [KeyIds -> TransferRecord]
        BY <2>1 DEF TypeOK, ServiceTypeOK
      <3>2. NoRecord \in TransferRecord /\ NoEntity \in [Accounts -> Int]
        BY DEF TransferRecord, NoRecord, NoEntity
      <3> QED
        BY <3>1, <3>2 DEF TypeOK, ServiceTypeOK, Replies
    <2>8. \A t \in Sessions : t # s => /\ pc'[t] = pc[t] /\ draft'[t] = draft[t]
                                       /\ entity'[t] = entity[t] /\ key'[t] = key[t]
      BY DEF TypeOK, ServiceTypeOK
    <2>9. pc'[s] = "done"
      BY DEF TypeOK, ServiceTypeOK
    <2>10. DraftInv'
      BY <2>8, <2>9 DEF DraftInv, Serving, Statements
    <2>11. RecordInv'
      BY <2>1 DEF RecordInv, Recorded, TypeOK, ServiceTypeOK
    <2>12. \A a \in Accounts, t \in Sessions :
              t # s /\ rowLock[a] = t => rowLock'[a] = t /\ balance'[a] = balance[a]
      BY <2>1, <2>2 DEF ReleaseRows
    <2>13. LockInv'
      BY <2>8, <2>9, <2>12 DEF LockInv, HoldsItsRows, FirstId
    <2>14. NoDivergentAccount'
      BY <2>2, <2>4 DEF NoDivergentAccount
    <2> QED
      BY <2>3, <2>4, <2>5, <2>6, <2>7, <2>10, <2>11, <2>13, <2>14
         DEF TypeOK, StoreTypeOK
  <1> QED
    BY <1>1, <1>2 DEF Commit

\* An answered session has forgotten everything it loaded.
LEMMA ReturnIInv ==
    ASSUME IInv, NEW s \in Sessions, Return(s)
    PROVE  IInv'
  <1> USE DEF IInv, Return, GoTo, storeVars
  <1>1. TypeOK'
    BY DEF TypeOK, StoreTypeOK, ServiceTypeOK, Replies
  <1>2. DraftInv'
    BY DEF DraftInv, Serving, Statements, TypeOK, ServiceTypeOK
  <1>3. RecordInv'
    BY DEF RecordInv, Recorded
  <1>4. LockInv'
    BY DEF LockInv, HoldsItsRows, FirstId, TypeOK, ServiceTypeOK
  <1>5. NoDivergentAccount'
    BY DEF NoDivergentAccount
  <1> QED
    BY <1>1, <1>2, <1>3, <1>4, <1>5

\* Every statement of a transaction keeps the invariant.
LEMMA StepIInv ==
    ASSUME IInv, NEW s \in Sessions, Step(s)
    PROVE  IInv'
  <1>1. CASE ExistsById(s)
    BY <1>1, RollbackIInv, ProceedIInv DEF ExistsById, Replies, Serving, Statements
  <1>2. CASE FindReversal(s)
    BY <1>2, RollbackIInv, ProceedIInv DEF FindReversal, Replies, Serving, Statements
  <1>3. CASE FindPrior(s)
    BY <1>3, RollbackIInv, ProceedIInv DEF FindPrior, Replies, Serving, Statements
  <1>4. CASE FindOriginal(s)
    BY <1>4, FindOriginalIInv
  <1>5. CASE LockFirst(s)
    BY <1>5, LockFirstIInv
  <1>6. CASE LockSecond(s)
    BY <1>6, LockSecondIInv
  <1>7. CASE Apply(s)
    BY <1>7, ApplyIInv
  <1>8. CASE Commit(s)
    BY <1>8, CommitIInv
  <1> QED
    BY <1>1, <1>2, <1>3, <1>4, <1>5, <1>6, <1>7, <1>8 DEF Step

\* So does every step of the service.
LEMMA NextIInv == IInv /\ [Next]_vars => IInv'
  <1> SUFFICES ASSUME IInv, [Next]_vars PROVE IInv'
    OBVIOUS
  <1>1. CASE UNCHANGED vars
    BY <1>1 DEF vars, storeVars, serviceVars, sessionVars, IInv, TypeOK, StoreTypeOK,
                ServiceTypeOK, DraftInv, RecordInv, LockInv, HoldsItsRows, NoDivergentAccount,
                Serving, Recorded, FirstId
  <1>2. ASSUME NEW s \in Sessions, Receive(s) PROVE IInv'
    BY <1>2, ReceiveTransferIInv, ReceiveReversalIInv DEF Receive
  <1>3. ASSUME NEW s \in Sessions, Step(s) PROVE IInv'
    BY <1>3, StepIInv
  <1>4. ASSUME NEW s \in Sessions, Crash(s) PROVE IInv'
    BY <1>4, RollbackIInv DEF Crash, Replies
  <1>5. ASSUME NEW s \in Sessions, Return(s) PROVE IInv'
    BY <1>5, ReturnIInv
  <1> QED
    BY <1>1, <1>2, <1>3, <1>4, <1>5 DEF Next

\* IInv holds in every reachable state of AccountService.
THEOREM Invariance == Spec => []IInv
  BY InitIInv, NextIInv, PTL DEF Spec

-----------------------------------------------------------------------------
\* Types are kept; in particular no committed balance is ever negative, so the
\* CHECK (balance >= 0) of V1:4 never has to refuse a flush.
THEOREM TypeCorrect == Spec => []TypeOK
  <1>1. IInv => TypeOK
    BY DEF IInv
  <1> QED
    BY <1>1, Invariance, PTL

\* The divergence metric stays 0: concurrent transfers and reversals, with
\* crashes at any statement, lose no update of a balance (LedgerMetrics.java:7).
THEOREM LedgerAgrees == Spec => []NoDivergentAccount
  <1>1. IInv => NoDivergentAccount
    BY DEF IInv
  <1> QED
    BY <1>1, Invariance, PTL

\* The row locks are enough: what a session computes from is still committed.
THEOREM RowsStayCurrent == Spec => []LoadedRowsAreCurrent
  <1>1. IInv => LoadedRowsAreCurrent
    BY DEF IInv, LockInv, HoldsItsRows, LoadedRowsAreCurrent
  <1> QED
    BY <1>1, Invariance, PTL

-----------------------------------------------------------------------------
(* What an Idempotency-Key is worth *)

\* The statements that run once the session has found its key unused.
Past == {"findPrior", "findOriginal", "lockFirst", "lockSecond", "apply", "commit"}

\* The statements at which the draft is the record to be saved.
Ready == {"existsById", "lockFirst", "lockSecond", "apply", "commit"}

\* A key has moved money when its record exists, and the amount of the record
\* unless another payload was stored over it.
KeysMoved ==
    \A k \in KeyIds : /\ Recorded(k) <=> moved[k] > 0
                      /\ k \notin overlapped => moved[k] = transfers[k].amount

\* A key that was never carried by two requests at once is served alone.
Alone ==
    \A s, t \in Sessions :
        Serving(s) /\ Serving(t) /\ key[s] = key[t] /\ key[s] \notin overlapped => s = t

\* What the lookup of such a key answered is still true.
Unrecorded ==
    \A s \in Sessions :
        pc[s] \in Past /\ key[s] \notin overlapped => ~Recorded(key[s])

\* A reversal mirrors its original.
Mirrored(r) ==
    r.reversalOf # NoId /\ r.reversalOf \notin overlapped =>
        /\ Recorded(r.reversalOf)
        /\ r.amount = transfers[r.reversalOf].amount
        /\ r.source = transfers[r.reversalOf].destination
        /\ r.destination = transfers[r.reversalOf].source

RecordsMirrored == \A k \in KeyIds : Recorded(k) => Mirrored(transfers[k])

DraftsMirrored == \A s \in Sessions : pc[s] \in Ready => Mirrored(draft[s])

\* The unique index on reversal_of.
OneReversal ==
    \A k, l \in KeyIds :
        /\ Recorded(k) /\ Recorded(l)
        /\ transfers[k].reversalOf = transfers[l].reversalOf
        /\ transfers[k].reversalOf # NoId
        => k = l

KeyInv == /\ KeysMoved /\ Alone /\ Unrecorded
          /\ RecordsMirrored /\ DraftsMirrored /\ OneReversal

-----------------------------------------------------------------------------
\* Nothing is recorded, moved or served at first.
LEMMA InitKeyInv == Init => KeyInv
  <1> SUFFICES ASSUME Init PROVE KeyInv
    OBVIOUS
  <1> USE DEF Init, StoreInit, ServiceInit, Recorded, Serving, Statements
  <1>1. KeysMoved
    BY ServiceAssumption DEF KeysMoved, NoRecord
  <1>2. Alone /\ Unrecorded /\ DraftsMirrored
    BY DEF Alone, Unrecorded, DraftsMirrored, Past, Ready
  <1>3. RecordsMirrored /\ OneReversal
    BY DEF RecordsMirrored, OneReversal
  <1> QED
    BY <1>1, <1>2, <1>3 DEF KeyInv

\* A step of s that writes no record, and reaches the statements of Past and
\* Ready only with what they require.
Quiet(s) ==
    /\ UNCHANGED <<transfers, moved, overlapped>>
    /\ \A t \in Sessions \ {s} : pc'[t] = pc[t] /\ key'[t] = key[t] /\ draft'[t] = draft[t]
    /\ Serving(s)' => Serving(s) /\ key'[s] = key[s]
    /\ pc'[s] \in Past => Serving(s)' /\ (pc[s] \in Past \/ ~Recorded(key[s]))
    /\ pc'[s] \in Ready => Mirrored(draft'[s])

\* Such steps keep KeyInv: all they change is what the session itself knows.
LEMMA QuietKeyInv ==
    ASSUME KeyInv, NEW s \in Sessions, Quiet(s)
    PROVE  KeyInv'
  <1> USE DEF KeyInv, Quiet
  <1>1. KeysMoved' /\ OneReversal'
    BY DEF KeysMoved, OneReversal, Recorded
  <1>2. Alone'
    <2> SUFFICES ASSUME NEW t \in Sessions, NEW u \in Sessions, Serving(t)', Serving(u)',
                        key'[t] = key'[u], key'[t] \notin overlapped
                 PROVE  t = u
      BY DEF Alone
    <2>1. \A v \in {t, u} : Serving(v) /\ key'[v] = key[v]
      BY DEF Serving
    <2> QED
      BY <2>1 DEF Alone
  <1>3. Unrecorded'
    <2> SUFFICES ASSUME NEW t \in Sessions, pc'[t] \in Past, key'[t] \notin overlapped
                 PROVE  transfers'[key'[t]] = NoRecord
      BY DEF Unrecorded, Recorded
    <2>1. key'[t] = key[t] /\ (pc[t] \in Past \/ ~Recorded(key[t]))
      BY DEF Serving
    <2>2. ~Recorded(key[t])
      BY <2>1 DEF Unrecorded
    <2> QED
      BY <2>1, <2>2 DEF Recorded
  <1>4. RecordsMirrored'
    BY DEF RecordsMirrored, Mirrored, Recorded
  <1>5. DraftsMirrored'
    BY DEF DraftsMirrored, Mirrored, Recorded
  <1> QED
    BY <1>1, <1>2, <1>3, <1>4, <1>5

\* The end of a transaction that wrote nothing.
LEMMA RollbackKeyInv ==
    ASSUME IInv, KeyInv, NEW s \in Sessions, NEW answer, Rollback(s, answer)
    PROVE  KeyInv'
  <1>1. pc'[s] = "done" /\ \A t \in Sessions \ {s} : pc'[t] = pc[t] /\ key'[t] = key[t]
                                                     /\ draft'[t] = draft[t]
    BY DEF Rollback, Finish, GoTo, IInv, TypeOK, ServiceTypeOK
  <1>2. Quiet(s)
    BY <1>1 DEF Quiet, Rollback, Finish, Serving, Statements, Past, Ready
  <1> QED
    BY <1>2, QuietKeyInv

\* A read that moves on: it comes from Past, or has just found the key unused.
LEMMA ProceedKeyInv ==
    ASSUME IInv, KeyInv, NEW s \in Sessions, NEW statement \in Statements,
           Proceed(s, statement), Serving(s),
           pc[s] \in Past \/ ~Recorded(key[s]),
           statement \in Ready => pc[s] \in Ready
    PROVE  KeyInv'
  <1>1. pc'[s] = statement /\ \A t \in Sessions \ {s} : pc'[t] = pc[t]
    BY DEF Proceed, GoTo, IInv, TypeOK, ServiceTypeOK
  <1>2. statement \in Ready => Mirrored(draft[s])
    BY DEF KeyInv, DraftsMirrored
  <1>3. Quiet(s)
    BY <1>1, <1>2 DEF Quiet, Proceed, storeVars, Serving
  <1> QED
    BY <1>3, QuietKeyInv

\* The two row locks: the draft and the key are untouched.
LEMMA LockKeyInv ==
    ASSUME IInv, KeyInv, NEW s \in Sessions, NEW a, NEW statement \in {"lockSecond", "apply"},
           pc[s] \in {"lockFirst", "lockSecond"}, LockAndLoad(s, a), GoTo(s, statement)
    PROVE  KeyInv'
  <1>1. pc'[s] = statement /\ \A t \in Sessions \ {s} : pc'[t] = pc[t]
    BY DEF GoTo, IInv, TypeOK, ServiceTypeOK
  <1>2. Mirrored(draft[s])
    BY DEF KeyInv, DraftsMirrored, Ready
  <1>3. Quiet(s)
    BY <1>1, <1>2 DEF Quiet, LockAndLoad, Serving, Statements, Past
  <1> QED
    BY <1>3, QuietKeyInv

\* The draft is built from the original as it is stored.
LEMMA FindOriginalKeyInv ==
    ASSUME IInv, KeyInv, NEW s \in Sessions, FindOriginal(s)
    PROVE  KeyInv'
  <1> DEFINE of == draft[s].reversalOf
             original == transfers[of]
             swapped == [source |-> original.destination, destination |-> original.source,
                         amount |-> original.amount, reversalOf |-> of]
  <1>1. CASE Rollback(s, "NOT_FOUND") \/ Rollback(s, "INVALID")
    BY <1>1, RollbackKeyInv
  <1>2. CASE /\ Recorded(of)
             /\ GoTo(s, "lockFirst")
             /\ draft' = [draft EXCEPT ![s] = swapped]
             /\ UNCHANGED <<storeVars, transfers, key, entity, found, reply, overlapped>>
    <2>1. pc[s] = "findOriginal"
      BY FindOriginal(s) DEF FindOriginal
    <2>2. /\ pc'[s] = "lockFirst" /\ draft'[s] = swapped
          /\ \A t \in Sessions \ {s} : pc'[t] = pc[t] /\ draft'[t] = draft[t]
      BY <1>2 DEF GoTo, IInv, TypeOK, ServiceTypeOK
    <2>3. Mirrored(swapped)
      BY <1>2 DEF Mirrored
    <2>4. Quiet(s)
      BY <1>2, <2>1, <2>2, <2>3 DEF Quiet, storeVars, Serving, Statements, Past
    <2> QED
      BY <2>4, QuietKeyInv
  <1> QED
    BY <1>1, <1>2 DEF FindOriginal

\* The movement is computed in the session's own entities.
LEMMA ApplyKeyInv ==
    ASSUME IInv, KeyInv, NEW s \in Sessions, Apply(s)
    PROVE  KeyInv'
  <1>1. CASE Rollback(s, "INSUFFICIENT_FUNDS")
    BY <1>1, RollbackKeyInv
  <1>2. CASE GoTo(s, "commit") /\ UNCHANGED <<storeVars, transfers, key, draft, reply, overlapped>>
    <2>1. pc[s] = "apply"
      BY Apply(s) DEF Apply
    <2>2. pc'[s] = "commit" /\ \A t \in Sessions \ {s} : pc'[t] = pc[t]
      BY <1>2 DEF GoTo, IInv, TypeOK, ServiceTypeOK
    <2>3. Mirrored(draft[s])
      BY <2>1 DEF KeyInv, DraftsMirrored, Ready
    <2>4. Quiet(s)
      BY <1>2, <2>1, <2>2, <2>3 DEF Quiet, storeVars, Serving, Statements, Past
    <2> QED
      BY <2>4, QuietKeyInv
  <1> QED
    BY <1>1, <1>2 DEF Apply

\* An answered session serves no key.
LEMMA ReturnKeyInv ==
    ASSUME IInv, KeyInv, NEW s \in Sessions, Return(s)
    PROVE  KeyInv'
  <1>1. pc'[s] = "idle" /\ \A t \in Sessions \ {s} : pc'[t] = pc[t] /\ key'[t] = key[t]
    BY DEF Return, GoTo, IInv, TypeOK, ServiceTypeOK
  <1>2. Quiet(s)
    BY <1>1 DEF Quiet, Return, storeVars, Serving, Statements, Past, Ready
  <1> QED
    BY <1>2, QuietKeyInv

\* A request that arrives while its key is being served makes the key overlap;
\* one that arrives alone leaves it served alone.
LEMMA ArrivalKeyInv ==
    ASSUME KeyInv, NEW s \in Sessions, NEW k,
           pc[s] = "idle", key'[s] = k, UNCHANGED <<transfers, moved>>,
           \A t \in Sessions \ {s} : pc'[t] = pc[t] /\ key'[t] = key[t] /\ draft'[t] = draft[t],
           pc'[s] \in {"existsById", "findReversal", "done"},
           pc'[s] = "done" => overlapped' = overlapped,
           pc'[s] # "done" => overlapped' = overlapped \cup Overlap(k),
           pc'[s] = "existsById" => draft'[s].reversalOf = NoId
    PROVE  KeyInv'
  <1> USE DEF KeyInv
  <1>1. overlapped \subseteq overlapped'
    OBVIOUS
  <1>2. KeysMoved' /\ OneReversal'
    BY <1>1 DEF KeysMoved, OneReversal, Recorded
  <1>3. Alone'
    <2> SUFFICES ASSUME NEW t \in Sessions, NEW u \in Sessions, Serving(t)', Serving(u)',
                        key'[t] = key'[u], key'[t] \notin overlapped'
                 PROVE  t = u
      BY DEF Alone
    <2>1. CASE t # s /\ u # s
      BY <1>1, <2>1 DEF Alone, Serving
    <2>2. ASSUME NEW v \in Sessions \ {s}, Serving(v)', key'[v] = k, Serving(s)'
          PROVE  k \in overlapped'
      <3>1. Serving(v) /\ key[v] = k
        BY <2>2 DEF Serving
      <3>2. Overlap(k) = {k}
        BY <3>1 DEF Overlap
      <3>3. pc'[s] # "done"
        BY <2>2 DEF Serving, Statements
      <3> QED
        BY <3>2, <3>3
    <2> QED
      BY <2>1, <2>2
  <1>4. Unrecorded'
    BY <1>1 DEF Unrecorded, Recorded, Past
  <1>5. RecordsMirrored'
    BY <1>1 DEF RecordsMirrored, Mirrored, Recorded
  <1>6. DraftsMirrored'
    BY <1>1 DEF DraftsMirrored, Mirrored, Recorded, Ready
  <1> QED
    BY <1>2, <1>3, <1>4, <1>5, <1>6

\* A transfer is nobody's reversal; a refused one is not served.
LEMMA ReceiveTransferKeyInv ==
    ASSUME IInv, KeyInv, NEW s \in Sessions, NEW r \in Transfers, ReceiveTransfer(s, r)
    PROVE  KeyInv'
  <1>1. \A t \in Sessions \ {s} : pc'[t] = pc[t] /\ key'[t] = key[t] /\ draft'[t] = draft[t]
    BY DEF ReceiveTransfer, GoTo, IInv, TypeOK, ServiceTypeOK
  <1>2. key'[s] = r.id /\ pc[s] = "idle" /\ UNCHANGED <<transfers, moved>>
    BY DEF ReceiveTransfer, storeVars, IInv, TypeOK, ServiceTypeOK
  <1>3. \/ pc'[s] = "existsById" /\ draft'[s].reversalOf = NoId
           /\ overlapped' = overlapped \cup Overlap(r.id)
        \/ pc'[s] = "done" /\ overlapped' = overlapped
    BY DEF ReceiveTransfer, GoTo, IInv, TypeOK, ServiceTypeOK
  <1> QED
    BY <1>1, <1>2, <1>3, ArrivalKeyInv

\* A reversal arrives before it has a draft to mirror.
LEMMA ReceiveReversalKeyInv ==
    ASSUME IInv, KeyInv, NEW s \in Sessions, NEW id \in ReversalIds, NEW of \in KeyIds,
           ReceiveReversal(s, id, of)
    PROVE  KeyInv'
  <1>1. \A t \in Sessions \ {s} : pc'[t] = pc[t] /\ key'[t] = key[t] /\ draft'[t] = draft[t]
    BY DEF ReceiveReversal, GoTo, IInv, TypeOK, ServiceTypeOK
  <1>2. /\ key'[s] = id /\ pc[s] = "idle" /\ pc'[s] = "findReversal"
        /\ overlapped' = overlapped \cup Overlap(id) /\ UNCHANGED <<transfers, moved>>
    BY DEF ReceiveReversal, GoTo, storeVars, IInv, TypeOK, ServiceTypeOK
  <1> QED
    BY <1>1, <1>2, ArrivalKeyInv

\* A commit records a key that, unless it overlapped, was neither recorded nor
\* the original of anything, and that the index lets be the only reversal.
LEMMA CommitKeyInv ==
    ASSUME IInv, KeyInv, NEW s \in Sessions, Commit(s)
    PROVE  KeyInv'
  <1> DEFINE r == draft[s]
             c == key[s]
  <1>1. CASE Rollback(s, "ERROR")
    BY <1>1, RollbackKeyInv
  <1>2. CASE /\ ~ViolatesUnique(s)
             /\ PostEntries(c, r.source, r.destination, r.amount)
             /\ transfers' = [transfers EXCEPT ![c] = r]
             /\ Finish(s, "COMPLETED")
    <2>1. /\ pc[s] = "commit" /\ c \in KeyIds /\ c \in Journals
          /\ r.amount > 0 /\ r.amount \in Int /\ r # NoRecord
      BY Commit(s), ServiceAssumption
         DEF Commit, IInv, DraftInv, Serving, Statements, TypeOK, ServiceTypeOK, TransferRecord,
             NoRecord
    <2>2. /\ transfers'[c] = r
          /\ \A k \in KeyIds \ {c} : transfers'[k] = transfers[k]
      BY <1>2, <2>1 DEF IInv, TypeOK, ServiceTypeOK
    <2>3. /\ moved'[c] = moved[c] + r.amount /\ moved[c] \in Nat
          /\ \A k \in KeyIds \ {c} : moved'[k] = moved[k]
      BY <1>2, <2>1, ServiceAssumption DEF PostEntries, IInv, TypeOK, StoreTypeOK
    <2>4. pc'[s] = "done" /\ UNCHANGED <<key, overlapped>>
          /\ \A t \in Sessions \ {s} : pc'[t] = pc[t] /\ draft'[t] = draft[t]
      BY <1>2 DEF Finish, GoTo, IInv, TypeOK, ServiceTypeOK
    <2>5. c \notin overlapped => ~Recorded(c)
      BY <2>1 DEF KeyInv, Unrecorded, Past
    <2>6. KeysMoved'
      BY <2>1, <2>2, <2>3, <2>4, <2>5 DEF KeyInv, KeysMoved, Recorded
    <2>7. Alone'
      BY <2>4 DEF KeyInv, Alone, Serving, Statements
    <2>8. Unrecorded'
      <3> SUFFICES ASSUME NEW t \in Sessions, pc'[t] \in Past, key[t] \notin overlapped
                   PROVE  transfers'[key[t]] = NoRecord
        BY <2>4 DEF Unrecorded, Recorded
      <3>1. t # s /\ pc[t] \in Past /\ Serving(t) /\ Serving(s)
        BY <2>1, <2>4 DEF Past, Serving, Statements
      <3>2. key[t] # c /\ key[t] \in KeyIds
        BY <3>1 DEF KeyInv, Alone, IInv, DraftInv
      <3> QED
        BY <2>2, <3>1, <3>2 DEF KeyInv, Unrecorded, Recorded
    <2>9. ASSUME NEW q \in TransferRecord, Mirrored(q),
                 q.reversalOf # NoId, q.reversalOf \notin overlapped
          PROVE  /\ transfers[q.reversalOf] # NoRecord
                 /\ transfers'[q.reversalOf] = transfers[q.reversalOf]
      <3>1. q.reversalOf \in KeyIds /\ Recorded(q.reversalOf)
        BY <2>9 DEF Mirrored, TransferRecord
      <3> QED
        BY <2>2, <2>5, <2>9, <3>1 DEF Recorded
    <2>10. RecordsMirrored'
      <3> SUFFICES ASSUME NEW k \in KeyIds, Recorded(k)' PROVE Mirrored(transfers[k])'
        BY DEF RecordsMirrored
      <3>1. transfers'[k] \in TransferRecord /\ Mirrored(transfers'[k])
        <4>1. CASE k = c
          BY <2>1, <2>2, <4>1 DEF KeyInv, DraftsMirrored, Ready, IInv, TypeOK, ServiceTypeOK
        <4>2. CASE k # c
          BY <2>2, <4>2 DEF KeyInv, RecordsMirrored, Recorded, IInv, TypeOK, ServiceTypeOK
        <4> QED
          BY <4>1, <4>2
      <3> QED
        BY <2>4, <2>9, <3>1 DEF Mirrored, Recorded
    <2>11. DraftsMirrored'
      <3> SUFFICES ASSUME NEW t \in Sessions, pc'[t] \in Ready PROVE Mirrored(draft[t])'
        BY DEF DraftsMirrored
      <3>1. draft'[t] = draft[t] /\ draft[t] \in TransferRecord /\ Mirrored(draft[t])
        BY <2>4 DEF KeyInv, DraftsMirrored, Ready, IInv, TypeOK, ServiceTypeOK
      <3> QED
        BY <2>4, <2>9, <3>1 DEF Mirrored, Recorded
    <2>12. OneReversal'
      <3>1. \A k \in KeyIds \ {c} :
                Recorded(k) /\ r.reversalOf # NoId => transfers[k].reversalOf # r.reversalOf
        BY <1>2 DEF ViolatesUnique, ReversalsOf
      <3> QED
        BY <2>2, <3>1 DEF KeyInv, OneReversal, Recorded
    <2> QED
      BY <2>6, <2>7, <2>8, <2>10, <2>11, <2>12 DEF KeyInv
  <1> QED
    BY <1>1, <1>2 DEF Commit

\* Every statement of a transaction keeps the invariant.
LEMMA StepKeyInv ==
    ASSUME IInv, KeyInv, NEW s \in Sessions, Step(s)
    PROVE  KeyInv'
  <1>1. CASE ExistsById(s)
    BY <1>1, RollbackKeyInv, ProceedKeyInv DEF ExistsById, Serving, Statements, Ready
  <1>2. CASE FindReversal(s)
    BY <1>2, RollbackKeyInv, ProceedKeyInv DEF FindReversal, Serving, Statements, Ready
  <1>3. CASE FindPrior(s)
    BY <1>3, RollbackKeyInv, ProceedKeyInv DEF FindPrior, Serving, Statements, Ready, Past
  <1>4. CASE FindOriginal(s)
    BY <1>4, FindOriginalKeyInv
  <1>5. CASE LockFirst(s)
    BY <1>5, RollbackKeyInv, LockKeyInv DEF LockFirst
  <1>6. CASE LockSecond(s)
    BY <1>6, RollbackKeyInv, LockKeyInv DEF LockSecond
  <1>7. CASE Apply(s)
    BY <1>7, ApplyKeyInv
  <1>8. CASE Commit(s)
    BY <1>8, CommitKeyInv
  <1> QED
    BY <1>1, <1>2, <1>3, <1>4, <1>5, <1>6, <1>7, <1>8 DEF Step

\* So does every step of the service.
LEMMA NextKeyInv == IInv /\ KeyInv /\ [Next]_vars => KeyInv'
  <1> SUFFICES ASSUME IInv, KeyInv, [Next]_vars PROVE KeyInv'
    OBVIOUS
  <1>1. CASE UNCHANGED vars
    BY <1>1 DEF vars, storeVars, serviceVars, sessionVars, KeyInv, KeysMoved, Alone, Unrecorded,
                RecordsMirrored, DraftsMirrored, OneReversal, Mirrored, Serving, Recorded
  <1>2. ASSUME NEW s \in Sessions, Receive(s) PROVE KeyInv'
    BY <1>2, ReceiveTransferKeyInv, ReceiveReversalKeyInv DEF Receive
  <1>3. ASSUME NEW s \in Sessions, Step(s) PROVE KeyInv'
    BY <1>3, StepKeyInv
  <1>4. ASSUME NEW s \in Sessions, Crash(s) PROVE KeyInv'
    BY <1>4, RollbackKeyInv DEF Crash
  <1>5. ASSUME NEW s \in Sessions, Return(s) PROVE KeyInv'
    BY <1>5, ReturnKeyInv
  <1> QED
    BY <1>1, <1>2, <1>3, <1>4, <1>5 DEF Next

\* KeyInv holds in every reachable state of AccountService.
THEOREM KeyInvariance == Spec => []KeyInv
  BY Invariance, InitKeyInv, NextKeyInv, PTL DEF Spec

-----------------------------------------------------------------------------
\* No crash, lock wait or duplicate separates a key's record from its money:
\* one exists exactly when the other has moved.  AccountService.java:112-116,
\* 148-157.
THEOREM RecordsAndMoneyAgree == Spec => []RecordedIffMoved
  <1>1. KeyInv => RecordedIffMoved
    BY DEF KeyInv, KeysMoved, RecordedIffMoved
  <1> QED
    BY <1>1, KeyInvariance, PTL

\* Retries of a key that follow one another move its money once, however many
\* they are and whatever crashes in between.  AccountService.java:101-103.
THEOREM SerialRetriesMoveOnce == Spec => []SerialKeysMoveOnce
  <1>1. KeyInv => SerialKeysMoveOnce
    BY DEF KeyInv, KeysMoved, SerialKeysMoveOnce
  <1> QED
    BY <1>1, KeyInvariance, PTL

\* However many reversals of a transfer race, at most one is recorded, to the cent;
\* its money moves once unless two deliveries of that same reversal overlapped.
\* AccountService.java:121-137, V5:8-9.
THEOREM ReversedOnceAndExactly == Spec => []OneMirroredReversal
  <1>1. KeyInv => OneMirroredReversal
    BY ServiceAssumption DEF KeyInv, KeysMoved, RecordsMirrored, OneReversal, Mirrored,
                             ReversalsOf, OneMirroredReversal
  <1> QED
    BY <1>1, KeyInvariance, PTL

-----------------------------------------------------------------------------
(* The coordinator *)

\* What moves under a key is what its row says.
Matches(k, t) ==
    /\ rows[k] # NoRow
    /\ t.source = rows[k].source
    /\ t.destination = rows[k].destination
    /\ t.amount = rows[k].amount

Rows == {RowOf(r, s) : r \in Posts, s \in Statuses} \cup {NoRow}

\* The calls handlers make.
Valid(r) == r.source # r.destination /\ r.amount > 0
Calls == {CallOf(r) : r \in {q \in Posts : Valid(q)}}

\* The call on its way to a session, the one it serves, and what it answered.
SessionInv(s) ==
    /\ wire[s] # NoCall =>
          pc[s] = "idle" /\ wire[s] \in Calls /\ Matches(wire[s].id, wire[s])
    /\ Serving(s) =>
          pc[s] \in Ready /\ key[s] \in TransferIds /\ Matches(key[s], draft[s])
    /\ pc[s] = "done" => key[s] \in TransferIds
    /\ pc[s] = "done" /\ reply[s] = "COMPLETED" => Recorded(key[s])

\* A handler past its lookup works on the row of its own request, and completes
\* it only once account-service has a record.
Agreed == {"send", "await", "complete", "fail", "reread"}

PostInv(h) ==
    LET r == post[h]
    IN /\ step[h] \in Working => r \in Posts /\ Valid(r)
       /\ step[h] \in Working \ {"insert"} => rows[r.id] # NoRow
       /\ step[h] \in Agreed => SamePayload(rows[r.id], r)
       /\ step[h] \in {"complete", "reread"} => Recorded(r.id)
       /\ response[h] = "OK" =>
             /\ step[h] = "done" /\ r \in Posts /\ rows[r.id] # NoRow
             /\ SamePayload(rows[r.id], r) /\ rows[r.id].status # "Pending"
             /\ Recorded(r.id)

\* The session a handler waits for serves its call and nobody else's.
CallInv(h) ==
    LET s == call[h]
    IN /\ step[h] = "await" <=> s # NoSession
       /\ s # NoSession =>
             /\ wire[s] # NoCall => wire[s].id = post[h].id
             /\ pc[s] # "idle" => key[s] = post[h].id
       /\ \A g \in Handlers : call[g] = s /\ s # NoSession => g = h

\* A record is there when a row is completed, and its row before it.
RowInv ==
    \A k \in TransferIds :
        /\ rows[k].status = "Completed" => Recorded(k)
        /\ Recorded(k) => Matches(k, transfers[k]) /\ moved[k] >= transfers[k].amount

CoordInv ==
    /\ CoordinatorTypeOK /\ IInv /\ KeyInv /\ RowInv
    /\ \A s \in Sessions : SessionInv(s)
    /\ \A h \in Handlers : PostInv(h) /\ CallInv(h)

-----------------------------------------------------------------------------
\* What a post, its row and its call are.
LEMMA PostTypes ==
    ASSUME NEW r \in Posts
    PROVE  /\ r.id \in TransferIds /\ r.id \in KeyIds /\ r.id # NoId
           /\ CallOf(r) \in Transfers /\ CallOf(r).id = r.id /\ CallOf(r) # NoCall
           /\ \A s : /\ RowOf(r, s) # NoRow /\ RowOf(r, s).status = s
                     /\ SamePayload(RowOf(r, s), r)
           /\ r # NoPost
  <1>1. r \in PostRequest
    BY PostsAssumption
  <1>2. r.id \in TransferIds /\ r.id \in KeyIds /\ r.id # NoId
    BY <1>1, ServiceAssumption DEF PostRequest, KeyIds
  <1>3. CallOf(r) \in Transfers /\ CallOf(r).id = r.id
    BY CallsAssumption DEF CallOf
  <1>4. CallOf(r) # NoCall /\ r # NoPost
    BY <1>2, <1>3 DEF NoCall, NoPost
  <1>5. \A s : RowOf(r, s).status = s /\ SamePayload(RowOf(r, s), r)
    BY DEF RowOf, SamePayload
  <1>6. \A s : RowOf(r, s) # NoRow
    BY DEF RowOf, NoRow
  <1> QED
    BY <1>2, <1>3, <1>4, <1>5, <1>6

LEMMA InitCoordInv == CoordinatorInit => CoordInv
  <1> SUFFICES ASSUME CoordinatorInit PROVE CoordInv
    OBVIOUS
  <1> USE DEF CoordinatorInit
  <1>1. IInv /\ KeyInv
    BY InitIInv, InitKeyInv
  <1>2. CoordinatorTypeOK
    BY DEF CoordinatorTypeOK, Rows, Responses
  <1>3. RowInv
    <2>1. \A k \in TransferIds : rows[k].status # "Completed" /\ ~Recorded(k)
      BY DEF NoRow, Init, ServiceInit, Recorded, KeyIds
    <2> QED
      BY <2>1 DEF RowInv
  <1>4. \A s \in Sessions : SessionInv(s)
    BY DEF SessionInv, Init, ServiceInit, Serving, Statements
  <1>5. \A h \in Handlers : PostInv(h) /\ CallInv(h)
    BY DEF PostInv, CallInv, Working, Agreed
  <1> QED
    BY <1>1, <1>2, <1>3, <1>4, <1>5 DEF CoordInv

-----------------------------------------------------------------------------
(* Steps of the handlers *)

\* Rows are inserted and their status changes, nothing else.
RowsGrow ==
    \A k \in TransferIds :
        rows[k] # NoRow =>
            /\ rows'[k] # NoRow
            /\ rows'[k].source = rows[k].source
            /\ rows'[k].destination = rows[k].destination
            /\ rows'[k].amount = rows[k].amount
            /\ \A r \in Posts : SamePayload(rows[k], r) => SamePayload(rows'[k], r)
            /\ rows[k].status # "Pending" => rows'[k].status # "Pending"

\* The rest of a handler's step.
OwnStep(h) ==
    /\ \A g \in Handlers \ {h} : /\ step'[g] = step[g] /\ post'[g] = post[g]
                                 /\ call'[g] = call[g] /\ response'[g] = response[g]

\* What the other handlers know stays true.
LEMMA OtherHandlers ==
    ASSUME CoordInv, NEW h \in Handlers, OwnStep(h), RowsGrow,
           \A k \in TransferIds : Recorded(k) => Recorded(k)',
           NEW g \in Handlers \ {h}
    PROVE  PostInv(g)'
  <1>1. PostInv(g) /\ (step[g] \in Working => post[g] \in Posts)
    BY DEF CoordInv, PostInv
  <1>2. step'[g] = step[g] /\ post'[g] = post[g] /\ response'[g] = response[g]
    BY DEF OwnStep
  <1>3. CASE post[g] \in Posts
    <2>1. post[g].id \in TransferIds
      BY <1>3, PostTypes
    <2> QED
      BY <1>1, <1>2, <1>3, <2>1 DEF PostInv, RowsGrow, Agreed, Working
  <1>4. CASE post[g] \notin Posts
    BY <1>1, <1>2, <1>4 DEF PostInv, Agreed, Working
  <1> QED
    BY <1>3, <1>4

\* What is on its way to account-service, or served by it, still matches.
LEMMA SessionsKept ==
    ASSUME CoordInv, UNCHANGED <<vars, wire>>, RowsGrow, NEW s \in Sessions
    PROVE  SessionInv(s)'
  <1>1. SessionInv(s)
    BY DEF CoordInv
  <1>2. UNCHANGED <<pc, key, draft, reply, transfers>>
    BY DEF vars, serviceVars, sessionVars
  <1>3. wire[s] # NoCall => wire[s].id \in TransferIds
    BY <1>1, PostTypes DEF SessionInv, Calls
  <1> QED
    BY <1>1, <1>2, <1>3 DEF SessionInv, Matches, RowsGrow, Serving, Recorded

\* Enough to show of a step that leaves account-service and the wires alone.
LEMMA HandlerStepInv ==
    ASSUME CoordInv, NEW h \in Handlers, OwnStep(h), UNCHANGED <<vars, wire>>,
           CoordinatorTypeOK', RowsGrow, PostInv(h)',
           call'[h] \in {call[h], NoSession}, step'[h] = "await" <=> call'[h] # NoSession,
           call'[h] = NoSession \/ post'[h] = post[h],
           \A k \in TransferIds : rows'[k].status = "Completed" => Recorded(k)
    PROVE  CoordInv'
  <1>1. UNCHANGED <<pc, key, draft, reply, transfers, moved>>
    BY DEF vars, serviceVars, sessionVars, storeVars
  <1>2. IInv' /\ KeyInv'
    BY NextIInv, NextKeyInv DEF CoordInv
  <1>3. \A s \in Sessions : SessionInv(s)'
    BY SessionsKept
  <1>4. \A g \in Handlers : PostInv(g)'
    BY <1>1, OtherHandlers DEF Recorded
  <1>5. \A g \in Handlers : CallInv(g)'
    BY <1>1 DEF CoordInv, CallInv, OwnStep
  <1>6. RowInv'
    BY <1>1 DEF CoordInv, RowInv, RowsGrow, Recorded, Matches
  <1> QED
    BY <1>2, <1>3, <1>4, <1>5, <1>6 DEF CoordInv

\* The types and rows, in the form the cases below use.
LEMMA StateFacts ==
    ASSUME CoordInv
    PROVE  /\ \A k \in TransferIds : rows[k].status = "Completed" => Recorded(k)
           /\ rows \in [TransferIds -> Rows]
           /\ step \in [Handlers -> Working \cup {"idle", "done"}]
           /\ post \in [Handlers -> Posts \cup {NoPost}]
           /\ call \in [Handlers -> Sessions \cup {NoSession}]
           /\ wire \in [Sessions -> {CallOf(r) : r \in Posts} \cup {NoCall}]
           /\ response \in [Handlers -> Responses]
           /\ contended \subseteq TransferIds
           /\ NoSession \notin Sessions
  BY StoreAssumption DEF CoordInv, RowInv, CoordinatorTypeOK, Rows

\* What a handler knows, with them.
LEMMA HandlerFacts ==
    ASSUME CoordInv, NEW h \in Handlers
    PROVE  /\ PostInv(h) /\ CallInv(h)
           /\ \A k \in TransferIds : rows[k].status = "Completed" => Recorded(k)
           /\ rows \in [TransferIds -> Rows]
           /\ step \in [Handlers -> Working \cup {"idle", "done"}]
           /\ post \in [Handlers -> Posts \cup {NoPost}]
           /\ call \in [Handlers -> Sessions \cup {NoSession}]
           /\ wire \in [Sessions -> {CallOf(r) : r \in Posts} \cup {NoCall}]
           /\ response \in [Handlers -> Responses]
           /\ contended \subseteq TransferIds
           /\ NoSession \notin Sessions
  BY StateFacts DEF CoordInv

\* POST arrives.
LEMMA ReceivePostInv ==
    ASSUME CoordInv, NEW h \in Handlers, NEW r \in Posts, ReceivePost(h, r)
    PROVE  CoordInv'
  <1> USE HandlerFacts
  <1>1. /\ step[h] = "idle" /\ post' = [post EXCEPT ![h] = r]
        /\ UNCHANGED <<vars, rows, call, wire>>
    BY DEF ReceivePost
  <1>2. \/ /\ Valid(r) /\ step' = [step EXCEPT ![h] = "insert"] /\ response' = response
           /\ contended' = contended \cup (IF InProgress(r.id) THEN {r.id} ELSE {})
        \/ /\ step' = [step EXCEPT ![h] = "done"] /\ contended' = contended
           /\ response' = [response EXCEPT ![h] = "REJECTED"]
    BY DEF ReceivePost, Goto, Valid
  <1>3. OwnStep(h) /\ RowsGrow
    BY <1>1, <1>2 DEF OwnStep, RowsGrow
  <1>4. CoordinatorTypeOK'
    BY <1>1, <1>2, PostTypes DEF CoordinatorTypeOK, Rows, Working, Responses
  <1>5. response[h] # "OK"
    BY <1>1 DEF PostInv
  <1>6. PostInv(h)'
    BY <1>1, <1>2, <1>5 DEF PostInv, Working, Agreed
  <1>7. call'[h] = NoSession /\ step'[h] # "await"
    BY <1>1, <1>2 DEF CallInv
  <1> QED
    BY <1>1, <1>3, <1>4, <1>6, <1>7, HandlerStepInv

\* INSERT ... ON CONFLICT (id) DO NOTHING.
LEMMA InsertInv ==
    ASSUME CoordInv, NEW h \in Handlers, Insert(h)
    PROVE  CoordInv'
  <1> USE HandlerFacts
  <1>1. /\ step[h] = "insert" /\ step' = [step EXCEPT ![h] = "select"]
        /\ UNCHANGED <<vars, post, call, wire, response, contended>>
    BY DEF Insert, Goto
  <1>2. PICK r \in Posts : r = post[h] /\ Valid(r)
    BY <1>1 DEF PostInv, Working
  <1>3. r.id \in TransferIds /\ RowOf(r, "Pending") # NoRow /\ RowOf(r, "Pending").status = "Pending"
    BY PostTypes
  <1>4. rows' = [rows EXCEPT ![r.id] = IF rows[r.id] = NoRow THEN RowOf(r, "Pending") ELSE rows[r.id]]
    BY <1>2 DEF Insert
  <1>5. OwnStep(h) /\ RowsGrow /\ rows'[r.id] # NoRow
    BY <1>1, <1>3, <1>4 DEF OwnStep, RowsGrow
  <1>6. RowOf(r, "Pending") \in Rows
    BY DEF Rows, Statuses
  <1>7. CoordinatorTypeOK'
    BY <1>1, <1>3, <1>4, <1>6 DEF CoordinatorTypeOK, Rows, Working
  <1>8. PostInv(h)'
    BY <1>1, <1>2, <1>5 DEF PostInv, Working, Agreed
  <1>9. \A k \in TransferIds : rows'[k].status = "Completed" => Recorded(k)
    BY <1>3, <1>4
  <1>10. call'[h] = NoSession /\ step'[h] # "await"
    BY <1>1 DEF CallInv
  <1> QED
    BY <1>1, <1>5, <1>7, <1>8, <1>9, <1>10, HandlerStepInv

\* A handler that responds without having told the client OK.
LEMMA RespondInv ==
    ASSUME CoordInv, NEW h \in Handlers, NEW a \in Responses, Respond(h, a),
           UNCHANGED <<vars, rows, wire>>,
           a = "OK" =>
               LET r == post[h]
               IN /\ r \in Posts /\ rows[r.id] # NoRow /\ SamePayload(rows[r.id], r)
                  /\ rows[r.id].status # "Pending" /\ Recorded(r.id)
    PROVE  CoordInv'
  <1> USE HandlerFacts
  <1>1. /\ step' = [step EXCEPT ![h] = "done"] /\ response' = [response EXCEPT ![h] = a]
        /\ call' = [call EXCEPT ![h] = NoSession] /\ UNCHANGED <<post, contended>>
    BY DEF Respond, Goto
  <1>2. OwnStep(h) /\ RowsGrow
    BY <1>1 DEF OwnStep, RowsGrow
  <1>3. CoordinatorTypeOK'
    BY <1>1 DEF CoordinatorTypeOK, Rows
  <1>4. Recorded(post[h].id)' <=> Recorded(post[h].id)
    BY <1>1 DEF vars, serviceVars, Recorded
  <1>5. PostInv(h)'
    BY <1>1, <1>4 DEF PostInv, Working, Agreed
  <1>6. call'[h] = NoSession /\ step'[h] # "await"
    BY <1>1
  <1> QED
    BY <1>2, <1>3, <1>5, <1>6, HandlerStepInv

\* GetAsync and EnsureSamePayload.
LEMMA SelectInv ==
    ASSUME CoordInv, NEW h \in Handlers, Select(h)
    PROVE  CoordInv'
  <1> USE HandlerFacts
  <1>1. step[h] = "select" /\ UNCHANGED <<vars, rows, wire>>
    BY DEF Select
  <1>2. PICK r \in Posts : r = post[h] /\ Valid(r) /\ r.id \in TransferIds /\ rows[r.id] # NoRow
    <2>1. post[h] \in Posts /\ Valid(post[h]) /\ rows[post[h].id] # NoRow
      BY <1>1 DEF PostInv, Working
    <2> QED
      BY <2>1, PostTypes
  <1>3. CASE Respond(h, "CONFLICT")
    BY <1>1, <1>3, RespondInv DEF Responses
  <1>4. CASE SamePayload(rows[r.id], r) /\ rows[r.id].status = "Completed" /\ Respond(h, "OK")
    BY <1>1, <1>2, <1>4, RespondInv DEF Responses
  <1>5. CASE /\ SamePayload(rows[r.id], r) /\ Goto(h, "send")
             /\ UNCHANGED <<post, call, response, contended>>
    <2>1. step' = [step EXCEPT ![h] = "send"]
      BY <1>5 DEF Goto
    <2>2. OwnStep(h) /\ RowsGrow
      BY <1>1, <1>5, <2>1 DEF OwnStep, RowsGrow
    <2>3. CoordinatorTypeOK'
      BY <1>1, <1>5, <2>1 DEF CoordinatorTypeOK, Rows, Working
    <2>4. PostInv(h)'
      BY <1>1, <1>2, <1>5, <2>1 DEF PostInv, Working, Agreed
    <2>5. call'[h] = NoSession /\ step'[h] # "await"
      BY <1>1, <1>5, <2>1 DEF CallInv
    <2> QED
      BY <1>1, <1>5, <2>2, <2>3, <2>4, <2>5, HandlerStepInv
  <1> QED
    BY <1>2, <1>3, <1>4, <1>5 DEF Select

\* UPDATE transactions SET status.
LEMMA StatusUpdate ==
    ASSUME CoordInv, NEW r \in Posts, rows[r.id] # NoRow, SamePayload(rows[r.id], r),
           NEW status \in {"Completed", "Failed"},
           rows' = [rows EXCEPT ![r.id].status = status]
    PROVE  /\ RowsGrow /\ rows'[r.id] = RowOf(r, status)
           /\ \A k \in TransferIds \ {r.id} : rows'[k] = rows[k]
           /\ rows' \in [TransferIds -> Rows]
  <1>1. rows \in [TransferIds -> Rows]
    BY DEF CoordInv, CoordinatorTypeOK, Rows
  <1>2. r.id \in TransferIds /\ RowOf(r, status) # NoRow
    BY PostTypes
  <1>3. rows[r.id] = RowOf(r, rows[r.id].status)
    BY DEF SamePayload
  <1>4. rows' = [rows EXCEPT ![r.id] = [rows[r.id] EXCEPT !.status = status]]
    OBVIOUS
  <1>5. [rows[r.id] EXCEPT !.status = status] = RowOf(r, status)
    BY <1>3 DEF RowOf
  <1>6. rows' = [rows EXCEPT ![r.id] = RowOf(r, status)]
    BY <1>4, <1>5
  <1>7. rows'[r.id] = RowOf(r, status) /\ \A k \in TransferIds \ {r.id} : rows'[k] = rows[k]
    BY <1>1, <1>2, <1>6
  <1>8. RowOf(r, status) \in Rows
    BY DEF Rows, Statuses
  <1>9. rows' \in [TransferIds -> Rows]
    BY <1>1, <1>6, <1>8
  <1>10. \A q \in Posts : SamePayload(rows[r.id], q) => SamePayload(RowOf(r, status), q)
    BY <1>3 DEF SamePayload, RowOf
  <1>11. /\ RowOf(r, status).source = rows[r.id].source
         /\ RowOf(r, status).destination = rows[r.id].destination
         /\ RowOf(r, status).amount = rows[r.id].amount
         /\ RowOf(r, status).status # "Pending"
    BY <1>3 DEF RowOf
  <1>12. RowsGrow
    BY <1>2, <1>7, <1>10, <1>11 DEF RowsGrow
  <1> QED
    BY <1>7, <1>9, <1>12

\* The request a handler past its lookup works on, and its row.
LEMMA AgreedPost ==
    ASSUME CoordInv, NEW h \in Handlers, step[h] \in Agreed
    PROVE  /\ post[h] \in Posts /\ Valid(post[h]) /\ post[h].id \in TransferIds
           /\ rows[post[h].id] # NoRow /\ SamePayload(rows[post[h].id], post[h])
  <1>1. /\ post[h] \in Posts /\ Valid(post[h])
        /\ rows[post[h].id] # NoRow /\ SamePayload(rows[post[h].id], post[h])
    BY HandlerFacts DEF PostInv, Working, Agreed
  <1> QED
    BY <1>1, PostTypes

\* CompleteAsync.
LEMMA CompleteInv ==
    ASSUME CoordInv, NEW h \in Handlers, Complete(h)
    PROVE  CoordInv'
  <1> USE HandlerFacts
  <1>1. /\ step[h] = "complete" /\ step' = [step EXCEPT ![h] = "reread"]
        /\ UNCHANGED <<vars, post, call, wire, response, contended>>
    BY DEF Complete, Goto
  <1>2. PICK r \in Posts : /\ r = post[h] /\ Valid(r) /\ rows[r.id] # NoRow
                           /\ SamePayload(rows[r.id], r) /\ r.id \in TransferIds
    BY <1>1, AgreedPost DEF Agreed
  <1>3. Recorded(r.id)
    BY <1>1, <1>2 DEF PostInv
  <1>4. rows' = [rows EXCEPT ![r.id].status = "Completed"]
    BY <1>2 DEF Complete
  <1>5. /\ RowsGrow /\ \A k \in TransferIds \ {r.id} : rows'[k] = rows[k]
        /\ rows' \in [TransferIds -> Rows]
    BY <1>2, <1>4, StatusUpdate
  <1>6. OwnStep(h)
    BY <1>1 DEF OwnStep
  <1>7. CoordinatorTypeOK'
    BY <1>1, <1>5 DEF CoordinatorTypeOK, Rows, Working
  <1>8. Recorded(r.id)'
    BY <1>1, <1>3 DEF vars, serviceVars, Recorded
  <1>9. PostInv(h)'
    BY <1>1, <1>2, <1>5, <1>8 DEF PostInv, RowsGrow, Working, Agreed
  <1>10. \A k \in TransferIds : rows'[k].status = "Completed" => Recorded(k)
    BY <1>3, <1>5
  <1>11. call'[h] = NoSession /\ step'[h] # "await"
    BY <1>1 DEF CallInv
  <1> QED
    BY <1>1, <1>5, <1>6, <1>7, <1>9, <1>10, <1>11, HandlerStepInv

\* FailAsync and the response.
LEMMA FailInv ==
    ASSUME CoordInv, NEW h \in Handlers, Fail(h)
    PROVE  CoordInv'
  <1> USE HandlerFacts
  <1>1. /\ step[h] = "fail" /\ step' = [step EXCEPT ![h] = "done"]
        /\ response' = [response EXCEPT ![h] = "REJECTED"]
        /\ call' = [call EXCEPT ![h] = NoSession]
        /\ UNCHANGED <<vars, post, wire, contended>>
    BY DEF Fail, Goto, Respond
  <1>2. PICK r \in Posts : /\ r = post[h] /\ rows[r.id] # NoRow
                           /\ SamePayload(rows[r.id], r) /\ r.id \in TransferIds
    BY <1>1, AgreedPost DEF Agreed
  <1>3. rows' = [rows EXCEPT ![r.id].status = "Failed"]
    BY <1>2 DEF Fail
  <1>4. /\ RowsGrow /\ \A k \in TransferIds \ {r.id} : rows'[k] = rows[k]
        /\ rows'[r.id] = RowOf(r, "Failed")
        /\ rows' \in [TransferIds -> Rows]
    BY <1>2, <1>3, StatusUpdate
  <1>5. OwnStep(h)
    BY <1>1 DEF OwnStep
  <1>6. CoordinatorTypeOK'
    BY <1>1, <1>4 DEF CoordinatorTypeOK, Rows, Responses
  <1>7. PostInv(h)'
    BY <1>1 DEF PostInv, Working, Agreed
  <1>8. \A k \in TransferIds : rows'[k].status = "Completed" => Recorded(k)
    BY <1>4 DEF RowOf
  <1>9. call'[h] = NoSession /\ step'[h] # "await"
    BY <1>1
  <1> QED
    BY <1>1, <1>4, <1>5, <1>6, <1>7, <1>8, <1>9, HandlerStepInv

\* The SELECT after the UPDATE, and the ends of a request.
LEMMA LastStepsInv ==
    ASSUME CoordInv, NEW h \in Handlers, Reread(h) \/ GiveUp(h) \/ Hangup(h)
    PROVE  CoordInv'
  <1> USE HandlerFacts
  <1>1. CASE Reread(h)
    <2>1. step[h] = "reread" /\ UNCHANGED <<vars, rows, wire>>
      BY <1>1 DEF Reread
    <2>2. /\ post[h] \in Posts /\ rows[post[h].id] # NoRow
          /\ SamePayload(rows[post[h].id], post[h])
      BY <2>1, AgreedPost DEF Agreed
    <2>3. Recorded(post[h].id)
      BY <2>1 DEF PostInv
    <2>4. CASE Respond(h, "ACCEPTED")
      BY <2>1, <2>4, RespondInv DEF Responses
    <2>5. CASE rows[post[h].id].status = "Completed" /\ Respond(h, "OK")
      BY <2>1, <2>2, <2>3, <2>5, RespondInv DEF Responses
    <2> QED
      BY <1>1, <2>4, <2>5 DEF Reread
  <1>2. CASE GiveUp(h)
    BY <1>2, RespondInv DEF GiveUp, Responses
  <1>3. CASE Hangup(h)
    <2>1. /\ step[h] = "done" /\ step' = [step EXCEPT ![h] = "idle"]
          /\ post' = [post EXCEPT ![h] = NoPost] /\ response' = [response EXCEPT ![h] = "NONE"]
          /\ UNCHANGED <<vars, rows, call, wire, contended>>
      BY <1>3 DEF Hangup, Goto
    <2>2. OwnStep(h) /\ RowsGrow
      BY <2>1 DEF OwnStep, RowsGrow
    <2>3. CoordinatorTypeOK'
      BY <2>1 DEF CoordinatorTypeOK, Rows, Responses
    <2>4. PostInv(h)'
      BY <2>1 DEF PostInv, Working, Agreed
    <2>5. call'[h] = NoSession /\ step'[h] # "await"
      BY <2>1 DEF CallInv
    <2> QED
      BY <2>1, <2>2, <2>3, <2>4, <2>5, HandlerStepInv
  <1> QED
    BY <1>1, <1>2, <1>3

-----------------------------------------------------------------------------
(* Calls on their way, served and answered *)

\* The post of a call travels to a free session.
LEMMA SendInv ==
    ASSUME CoordInv, NEW h \in Handlers, NEW s \in Sessions, Send(h, s)
    PROVE  CoordInv'
  <1> USE HandlerFacts
  <1>1. /\ step[h] = "send" /\ step' = [step EXCEPT ![h] = "await"]
        /\ pc[s] = "idle" /\ wire[s] = NoCall /\ ~Awaited(s)
        /\ call' = [call EXCEPT ![h] = s]
        /\ UNCHANGED <<vars, rows, post, response, contended>>
    BY DEF Send, Goto
  <1>2. PICK r \in Posts : /\ r = post[h] /\ Valid(r) /\ rows[r.id] # NoRow
                           /\ SamePayload(rows[r.id], r) /\ r.id \in TransferIds
    BY <1>1, AgreedPost DEF Agreed
  <1>3. wire' = [wire EXCEPT ![s] = CallOf(r)] /\ CallOf(r) \in Calls
    BY <1>2 DEF Send, Calls
  <1>4. UNCHANGED <<pc, key, draft, reply, transfers, moved>>
    BY <1>1 DEF vars, serviceVars, sessionVars, storeVars
  <1>5. wire' \in [Sessions -> {CallOf(q) : q \in Posts} \cup {NoCall}]
    <2>1. CallOf(r) \in {CallOf(q) : q \in Posts} \cup {NoCall}
      OBVIOUS
    <2> QED
      BY <1>3, <2>1
  <1>6. CoordinatorTypeOK'
    BY <1>1, <1>5 DEF CoordinatorTypeOK, Rows, Working
  <1>7. IInv' /\ KeyInv'
    BY <1>1, NextIInv, NextKeyInv DEF CoordInv
  <1>8. Matches(r.id, CallOf(r))
    <2>1. rows[r.id] = RowOf(r, rows[r.id].status)
      BY <1>2 DEF SamePayload
    <2> QED
      BY <1>2, <2>1 DEF Matches, CallOf, RowOf
  <1>9. ASSUME NEW t \in Sessions PROVE SessionInv(t)'
    <2>1. SessionInv(t)
      BY DEF CoordInv
    <2>2. CASE t # s
      BY <1>1, <1>3, <1>4, <2>1, <2>2 DEF SessionInv, Matches, Serving, Recorded
    <2>3. CASE t = s
      <3>1. wire'[t] = CallOf(r) /\ CallOf(r).id = r.id
        BY <1>3, <2>3, PostTypes
      <3>2. Matches(r.id, CallOf(r))'
        BY <1>1, <1>8 DEF Matches
      <3> QED
        BY <1>1, <1>3, <1>4, <2>1, <2>3, <3>1, <3>2 DEF SessionInv, Matches, Serving, Recorded, Statements
    <2> QED
      BY <2>2, <2>3
  <1>10. RowInv'
    BY <1>1, <1>4 DEF CoordInv, RowInv, Recorded, Matches
  <1>11. RowsGrow /\ OwnStep(h)
    BY <1>1 DEF RowsGrow, OwnStep
  <1>12. PostInv(h)'
    BY <1>1, <1>2 DEF PostInv, Working, Agreed
  <1>13. \A g \in Handlers : PostInv(g)'
    BY <1>4, <1>11, <1>12, OtherHandlers DEF Recorded
  <1>14. ASSUME NEW g \in Handlers PROVE CallInv(g)'
    <2>1. CallInv(g) /\ (g # h => call[g] # s)
      BY <1>1 DEF CoordInv, Awaited
    <2>2. CASE g # h
      BY <1>1, <1>3, <1>4, <2>1, <2>2 DEF CallInv
    <2>3. CASE g = h
      <3>1. call'[g] = s /\ wire'[s] = CallOf(r) /\ CallOf(r).id = r.id /\ post'[g] = r
        BY <1>1, <1>2, <1>3, <2>3, PostTypes
      <3>2. \A f \in Handlers \ {g} : call'[f] # s
        BY <1>1, <2>3 DEF Awaited
      <3> QED
        BY <1>1, <1>4, <2>3, <3>1, <3>2 DEF CallInv
    <2> QED
      BY <2>2, <2>3
  <1> QED
    BY <1>6, <1>7, <1>9, <1>10, <1>13, <1>14 DEF CoordInv

\* The answer leaves a session.
LEMMA ReturnEffect ==
    ASSUME CoordInv, NEW s \in Sessions, Return(s)
    PROVE  /\ pc[s] = "done" /\ pc'[s] = "idle" /\ wire[s] = NoCall
           /\ UNCHANGED <<draft, transfers, moved, overlapped>>
           /\ \A t \in Sessions \ {s} : pc'[t] = pc[t] /\ key'[t] = key[t] /\ reply'[t] = reply[t]
           /\ IInv' /\ KeyInv'
  <1>1. Next
    BY DEF Next
  <1>2. IInv' /\ KeyInv'
    BY <1>1, NextIInv, NextKeyInv DEF CoordInv
  <1>3. TypeOK /\ SessionInv(s)
    BY DEF CoordInv, IInv
  <1> QED
    BY <1>2, <1>3 DEF Return, GoTo, storeVars, TypeOK, ServiceTypeOK, SessionInv

LEMMA ReturnedSessions ==
    ASSUME CoordInv, NEW s \in Sessions, Return(s), UNCHANGED <<rows, wire>>,
           NEW t \in Sessions
    PROVE  SessionInv(t)'
  <1>1. SessionInv(t) /\ SessionInv(s)
    BY DEF CoordInv
  <1>2. CASE t = s
    BY <1>1, <1>2, ReturnEffect DEF SessionInv, Serving, Statements
  <1>3. CASE t # s
    BY <1>1, <1>3, ReturnEffect DEF SessionInv, Matches, Serving, Recorded
  <1> QED
    BY <1>2, <1>3

\* The answer of account-service reaches the handler that waits for it.
LEMMA AnsweredInv ==
    ASSUME CoordInv, NEW h \in Handlers, Answered(h)
    PROVE  CoordInv'
  <1> USE HandlerFacts
  <1> DEFINE s == call[h]
  <1>1. step[h] = "await" /\ s \in Sessions /\ Return(s) /\ UNCHANGED <<rows, wire>>
    BY DEF Answered, CallInv
  <1>2. PICK r \in Posts : /\ r = post[h] /\ Valid(r) /\ rows[r.id] # NoRow
                           /\ SamePayload(rows[r.id], r) /\ r.id \in TransferIds
    BY <1>1, AgreedPost DEF Agreed
  <1>3. key[s] = r.id /\ pc[s] = "done" /\ SessionInv(s)
    BY <1>1, <1>2, ReturnEffect DEF CallInv, CoordInv
  <1>4. /\ \/ /\ step' = [step EXCEPT ![h] = "complete"] /\ response' = response
              /\ reply[s] = "COMPLETED"
           \/ step' = [step EXCEPT ![h] = "fail"] /\ response' = response
           \/ step' = [step EXCEPT ![h] = "done"] /\ response' = [response EXCEPT ![h] = "UNAVAILABLE"]
        /\ call' = [call EXCEPT ![h] = NoSession] /\ UNCHANGED <<post, contended>>
    BY DEF Answered, Goto, Respond
  <1> HIDE DEF s
  <1>5. reply[s] = "COMPLETED" => Recorded(r.id)
    BY <1>3 DEF SessionInv
  <1>6. \A k : Recorded(k)' <=> Recorded(k)
    BY <1>1, ReturnEffect DEF Recorded
  <1>7. CoordinatorTypeOK'
    BY <1>1, <1>4 DEF CoordinatorTypeOK, Rows, Working, Responses
  <1>8. RowsGrow /\ OwnStep(h)
    BY <1>1, <1>4 DEF RowsGrow, OwnStep
  <1>9. PostInv(h)'
    BY <1>1, <1>2, <1>4, <1>5, <1>6 DEF PostInv, Working, Agreed
  <1>10. \A g \in Handlers : PostInv(g)'
    BY <1>6, <1>8, <1>9, OtherHandlers
  <1>11. \A t \in Sessions : SessionInv(t)'
    BY <1>1, ReturnedSessions
  <1>12. RowInv'
    BY <1>1, ReturnEffect DEF CoordInv, RowInv, Recorded, Matches
  <1>13. ASSUME NEW g \in Handlers PROVE CallInv(g)'
    <2>1. CallInv(g) /\ (g # h => call[g] # s)
      BY <1>1 DEF CoordInv, CallInv, s
    <2>2. CASE g # h
      BY <1>1, <1>4, <2>1, <2>2, ReturnEffect DEF CallInv
    <2>3. CASE g = h
      BY <1>4, <2>3 DEF CallInv
    <2> QED
      BY <2>2, <2>3
  <1> QED
    BY <1>1, <1>7, <1>10, <1>11, <1>12, <1>13, ReturnEffect DEF CoordInv

\* Enough to show of a step on the other side of the call, where the handlers
\* and their rows stand still.
LEMMA SessionStepInv ==
    ASSUME CoordInv, NEW s \in Sessions, Next \/ UNCHANGED vars,
           UNCHANGED <<rows, step, post, call, response, contended>>,
           \A t \in Sessions \ {s} :
               /\ wire'[t] = wire[t] /\ pc'[t] = pc[t] /\ key'[t] = key[t]
               /\ draft'[t] = draft[t] /\ reply'[t] = reply[t],
           wire' \in {wire, [wire EXCEPT ![s] = NoCall]},
           pc'[s] # "idle" =>
               \/ pc[s] # "idle" /\ key'[s] = key[s]
               \/ wire[s] # NoCall /\ key'[s] = wire[s].id,
           \A k \in TransferIds : Recorded(k) => Recorded(k)',
           RowInv', SessionInv(s)'
    PROVE  CoordInv'
  <1> USE StateFacts
  <1>1. IInv' /\ KeyInv'
    BY NextIInv, NextKeyInv DEF CoordInv
  <1>2. wire' \in [Sessions -> {CallOf(r) : r \in Posts} \cup {NoCall}]
    <2> DEFINE Wired == {CallOf(r) : r \in Posts} \cup {NoCall}
    <2>1. NoCall \in Wired /\ wire \in [Sessions -> Wired]
      OBVIOUS
    <2> HIDE DEF Wired
    <2>2. CASE wire' = wire
      BY <2>1, <2>2 DEF Wired
    <2>3. CASE wire' = [wire EXCEPT ![s] = NoCall]
      <3>1. wire' \in [Sessions -> Wired]
        BY <2>1, <2>3
      <3> QED
        BY <3>1 DEF Wired
    <2> QED
      BY <2>2, <2>3
  <1>3. CoordinatorTypeOK'
    <2>1. /\ rows' \in [TransferIds -> Rows]
          /\ step' \in [Handlers -> Working \cup {"idle", "done"}]
          /\ post' \in [Handlers -> Posts \cup {NoPost}]
          /\ call' \in [Handlers -> Sessions \cup {NoSession}]
          /\ response' \in [Handlers -> Responses] /\ contended' \subseteq TransferIds
      OBVIOUS
    <2> QED
      BY <1>2, <2>1 DEF CoordinatorTypeOK, Rows
  <1>4. \A t \in Sessions : SessionInv(t)'
    <2> SUFFICES ASSUME NEW t \in Sessions \ {s} PROVE SessionInv(t)'
      OBVIOUS
    <2>1. SessionInv(t)
      BY DEF CoordInv
    <2> QED
      BY <2>1 DEF SessionInv, Matches, Serving, Ready, KeyIds
  <1>5. ASSUME NEW h \in Handlers PROVE PostInv(h)'
    <2>1. post[h] \in Posts => post[h].id \in TransferIds
      BY PostTypes
    <2>2. PostInv(h)
      BY DEF CoordInv
    <2>3. step[h] \in {"complete", "reread"} \/ response[h] = "OK" => post[h] \in Posts
      BY <2>2 DEF PostInv, Working
    <2> QED
      BY <2>1, <2>2, <2>3 DEF PostInv
  <1>6. ASSUME NEW h \in Handlers PROVE CallInv(h)'
    <2>1. CallInv(h)
      BY DEF CoordInv
    <2>2. call[h] = s => wire'[s] \in {wire[s], NoCall}
      BY NoSession \notin Sessions
    <2>3. CASE call[h] = s
      BY <2>1, <2>2, <2>3 DEF CallInv
    <2>4. CASE call[h] # s
      BY <2>1, <2>4 DEF CallInv
    <2> QED
      BY <2>3, <2>4
  <1> QED
    BY <1>1, <1>3, <1>4, <1>5, <1>6 DEF CoordInv

\* The call arrives: account-service serves a valid transfer.
LEMMA DeliverInv ==
    ASSUME CoordInv, NEW s \in Sessions, Deliver(s)
    PROVE  CoordInv'
  <1> USE StateFacts
  <1>1. /\ wire[s] # NoCall /\ ReceiveTransfer(s, wire[s])
        /\ wire' = [wire EXCEPT ![s] = NoCall]
        /\ UNCHANGED <<rows, step, post, call, response, contended>>
    BY DEF Deliver
  <1>2. SessionInv(s) /\ TypeOK
    BY DEF CoordInv, IInv
  <1>3. PICK r \in Posts : wire[s] = CallOf(r) /\ Valid(r) /\ Matches(r.id, CallOf(r))
    BY <1>1, <1>2, PostTypes DEF SessionInv, Calls
  <1>4. CallOf(r) \in Transfers /\ CallOf(r).id = r.id /\ r.id \in TransferIds
    BY PostTypes
  <1>0. r.amount \in Int /\ r.amount > 0 /\ r.source # r.destination
    BY <1>3, PostsAssumption DEF PostRequest, Valid
  <1>5. Next
    BY <1>1, <1>3, <1>4 DEF Next, Receive
  <1>6. /\ pc'[s] = "existsById" /\ key'[s] = r.id
        /\ draft'[s] = [source |-> r.source, destination |-> r.destination,
                        amount |-> r.amount, reversalOf |-> NoId]
        /\ UNCHANGED <<transfers, moved, reply>>
    BY <1>0, <1>1, <1>2, <1>3, <1>4
       DEF ReceiveTransfer, GoTo, CallOf, storeVars, TypeOK, ServiceTypeOK
  <1>7. \A t \in Sessions \ {s} : /\ wire'[t] = wire[t] /\ pc'[t] = pc[t] /\ key'[t] = key[t]
                                  /\ draft'[t] = draft[t] /\ reply'[t] = reply[t]
    BY <1>1, <1>2 DEF ReceiveTransfer, GoTo, TypeOK, ServiceTypeOK
  <1>8. SessionInv(s)'
    <2>1. wire'[s] = NoCall
      BY <1>1
    <2>2. Matches(r.id, draft[s])'
      BY <1>1, <1>3, <1>6 DEF Matches, CallOf
    <2> QED
      BY <1>4, <1>6, <2>1, <2>2 DEF SessionInv, Ready
  <1>9. RowInv'
    BY <1>1, <1>6 DEF CoordInv, RowInv, Recorded, Matches
  <1> QED
    BY <1>1, <1>3, <1>4, <1>5, <1>6, <1>7, <1>8, <1>9, SessionStepInv DEF Recorded

\* A call or an answer is lost.
LEMMA LossInv ==
    ASSUME CoordInv, NEW s \in Sessions, Lose(s) \/ Drop(s)
    PROVE  CoordInv'
  <1> USE StateFacts
  <1>1. CASE Lose(s)
    <2>1. /\ wire' = [wire EXCEPT ![s] = NoCall]
          /\ UNCHANGED <<vars, rows, step, post, call, response, contended>>
      BY <1>1 DEF Lose
    <2>2. UNCHANGED <<pc, key, draft, reply, transfers, moved>>
      BY <2>1 DEF vars, serviceVars, sessionVars, storeVars
    <2>3. SessionInv(s)'
      BY <2>1, <2>2 DEF CoordInv, SessionInv, Matches, Serving, Recorded
    <2>4. RowInv'
      BY <2>1, <2>2 DEF CoordInv, RowInv, Recorded, Matches
    <2>5. \A t \in Sessions \ {s} : wire'[t] = wire[t]
      BY <2>1
    <2> QED
      BY <2>1, <2>2, <2>3, <2>4, <2>5, SessionStepInv DEF Recorded
  <1>2. CASE Drop(s)
    <2>1. Return(s) /\ UNCHANGED <<rows, step, post, call, wire, response, contended>>
      BY <1>2 DEF Drop, coordinatorVars
    <2>2. Next
      BY <2>1 DEF Next
    <2>3. SessionInv(s)'
      BY <2>1, ReturnedSessions
    <2>4. RowInv'
      BY <2>1, ReturnEffect DEF CoordInv, RowInv, Recorded, Matches
    <2>5. pc'[s] = "idle" /\ UNCHANGED <<draft, transfers>>
          /\ \A t \in Sessions \ {s} : pc'[t] = pc[t] /\ key'[t] = key[t] /\ reply'[t] = reply[t]
      BY <2>1, ReturnEffect
    <2> QED
      BY <2>1, <2>2, <2>3, <2>4, <2>5, SessionStepInv DEF Recorded
  <1> QED
    BY <1>1, <1>2

\* What a statement of account-service does to the call it serves.
MovesOn(s) ==
    /\ pc'[s] \in Ready /\ draft'[s] = draft[s] /\ UNCHANGED <<transfers, moved>>

\* The answer tells whether the key is recorded, unless it was carried by two
\* requests at once or the transaction broke.
Ends(s) ==
    /\ pc'[s] = "done" /\ UNCHANGED <<transfers, moved>>
    /\ reply'[s] = "COMPLETED" => Recorded(key[s])
    /\ reply'[s] \notin {"COMPLETED", "ERROR"} /\ key[s] \notin overlapped => ~Recorded(key[s])

Moves(s) ==
    /\ pc'[s] = "done" /\ reply'[s] = "COMPLETED"
    /\ transfers' = [transfers EXCEPT ![key[s]] = draft[s]]
    /\ moved' = [moved EXCEPT ![key[s]] = @ + draft[s].amount]

LEMMA ServeEffect ==
    ASSUME CoordInv, NEW s \in Sessions, Step(s) \/ Crash(s)
    PROVE  /\ Serving(s) /\ UNCHANGED <<key, overlapped>>
           /\ \A t \in Sessions \ {s} : /\ pc'[t] = pc[t] /\ draft'[t] = draft[t]
                                        /\ reply'[t] = reply[t]
           /\ MovesOn(s) \/ Ends(s) \/ Moves(s)
  <1> DEFINE Others == \A t \in Sessions \ {s} : /\ pc'[t] = pc[t] /\ draft'[t] = draft[t]
                                                 /\ reply'[t] = reply[t]
             Goal == /\ UNCHANGED <<key, overlapped>> /\ Others
                     /\ MovesOn(s) \/ Ends(s) \/ Moves(s)
  <1>1. Serving(s)
    BY DEF Step, Crash, Serving, Statements, ExistsById, FindReversal, FindPrior, FindOriginal,
           LockFirst, LockSecond, Apply, Commit
  <1>2. TypeOK /\ pc[s] \in Ready /\ Unrecorded
    BY <1>1 DEF CoordInv, SessionInv, IInv, KeyInv
  <1>3. ASSUME NEW a \in Replies, Rollback(s, a),
               a = "COMPLETED" => Recorded(key[s]),
               a \notin {"COMPLETED", "ERROR"} => pc[s] \in Past
        PROVE  Goal
    BY <1>2, <1>3 DEF Rollback, Finish, GoTo, TypeOK, ServiceTypeOK, Ends, Unrecorded
  <1>4. ASSUME NEW statement \in Ready, GoTo(s, statement),
               UNCHANGED <<transfers, moved, key, draft, reply, overlapped>>
        PROVE  Goal
    BY <1>2, <1>4 DEF GoTo, TypeOK, ServiceTypeOK, MovesOn
  <1>5. CASE Crash(s)
    BY <1>1, <1>3, <1>5 DEF Crash, Replies
  <1>6. CASE ExistsById(s)
    BY <1>1, <1>3, <1>4, <1>6 DEF ExistsById, Proceed, Replies, Ready, storeVars
  <1>7. CASE FindReversal(s) \/ FindPrior(s) \/ FindOriginal(s)
    BY <1>2, <1>7 DEF FindReversal, FindPrior, FindOriginal, Ready
  <1>8. CASE LockFirst(s)
    BY <1>1, <1>3, <1>4, <1>8 DEF LockFirst, LockAndLoad, Replies, Ready, Past
  <1>9. CASE LockSecond(s)
    BY <1>1, <1>3, <1>4, <1>9 DEF LockSecond, LockAndLoad, Replies, Ready, Past
  <1>10. CASE Apply(s)
    BY <1>1, <1>3, <1>4, <1>10 DEF Apply, Replies, Ready, Past, storeVars
  <1>11. CASE Commit(s)
    <2>1. CASE Rollback(s, "ERROR")
      BY <1>1, <1>3, <2>1 DEF Replies
    <2>2. CASE /\ PostEntries(key[s], draft[s].source, draft[s].destination, draft[s].amount)
               /\ transfers' = [transfers EXCEPT ![key[s]] = draft[s]]
               /\ Finish(s, "COMPLETED")
      <3>1. UNCHANGED <<key, overlapped>> /\ Others /\ pc'[s] = "done" /\ reply'[s] = "COMPLETED"
        BY <1>2, <2>2 DEF Finish, GoTo, TypeOK, ServiceTypeOK
      <3>2. moved' = [moved EXCEPT ![key[s]] = @ + draft[s].amount]
        BY <2>2 DEF PostEntries
      <3>3. Moves(s)
        BY <2>2, <3>1, <3>2 DEF Moves
      <3> QED
        BY <1>1, <3>1, <3>3
    <2> QED
      BY <1>11, <2>1, <2>2 DEF Commit
  <1> QED
    BY <1>1, <1>5, <1>6, <1>7, <1>8, <1>9, <1>10, <1>11 DEF Step

\* Account-service executes a statement of a call, or dies with it.
LEMMA ServeInv ==
    ASSUME CoordInv, NEW s \in Sessions, Serve(s)
    PROVE  CoordInv'
  <1> USE StateFacts
  <1>1. Step(s) \/ Crash(s)
    BY DEF Serve
  <1>2. UNCHANGED <<rows, step, post, call, wire, response, contended>>
    BY DEF Serve, coordinatorVars
  <1>3. Next
    BY <1>1 DEF Next
  <1>4. /\ Serving(s) /\ UNCHANGED <<key, overlapped>>
        /\ \A t \in Sessions \ {s} : /\ pc'[t] = pc[t] /\ draft'[t] = draft[t]
                                     /\ reply'[t] = reply[t]
        /\ MovesOn(s) \/ Ends(s) \/ Moves(s)
    BY <1>1, ServeEffect
  <1>5. /\ pc[s] \in Ready /\ key[s] \in TransferIds /\ Matches(key[s], draft[s])
        /\ wire[s] = NoCall
    BY <1>4 DEF CoordInv, SessionInv, Serving, Statements
  <1>6. pc[s] # "idle"
    BY <1>4 DEF Serving, Statements
  <1> DEFINE Goal == /\ \A k \in TransferIds : Recorded(k) => Recorded(k)'
                     /\ RowInv' /\ SessionInv(s)'
  <1>7. ASSUME MovesOn(s) PROVE Goal
    <2>1. \A k \in TransferIds : Recorded(k) => Recorded(k)'
      BY <1>7 DEF MovesOn, Recorded
    <2>2. RowInv'
      BY <1>2, <1>7 DEF MovesOn, CoordInv, RowInv, Recorded, Matches
    <2>3. SessionInv(s)'
      BY <1>2, <1>4, <1>5, <1>7 DEF MovesOn, SessionInv, Matches, Ready
    <2> QED
      BY <2>1, <2>2, <2>3
  <1>8. ASSUME Ends(s) PROVE Goal
    <2>1. \A k \in TransferIds : Recorded(k) => Recorded(k)'
      BY <1>8 DEF Ends, Recorded
    <2>2. RowInv'
      BY <1>2, <1>8 DEF Ends, CoordInv, RowInv, Recorded, Matches
    <2>3. SessionInv(s)'
      BY <1>2, <1>4, <1>5, <1>8 DEF Ends, SessionInv, Serving, Statements, Recorded
    <2> QED
      BY <2>1, <2>2, <2>3
  <1>9. ASSUME Moves(s) PROVE Goal
    <2>1. /\ transfers \in [KeyIds -> TransferRecord] /\ moved \in [Journals -> Nat]
          /\ draft[s] \in TransferRecord /\ draft[s].amount \in Int
          /\ key[s] \in KeyIds /\ key[s] \in Journals
      BY <1>5, ServiceAssumption DEF CoordInv, IInv, TypeOK, StoreTypeOK, ServiceTypeOK,
                                     TransferRecord, KeyIds
    <2>2. draft[s].amount > 0 /\ draft[s] # NoRecord
      BY <1>5 DEF CoordInv, IInv, DraftInv, Ready, NoRecord
    <2>3. /\ transfers'[key[s]] = draft[s]
          /\ \A k \in TransferIds \ {key[s]} : transfers'[k] = transfers[k]
      BY <1>9, <2>1 DEF Moves, KeyIds
    <2>4. /\ moved'[key[s]] = moved[key[s]] + draft[s].amount
          /\ \A k \in TransferIds \ {key[s]} : moved'[k] = moved[k]
      BY <1>9, <2>1, ServiceAssumption DEF Moves, KeyIds
    <2>5. \A k \in TransferIds : Recorded(k) => Recorded(k)'
      BY <2>2, <2>3 DEF Recorded
    <2>6. RowInv'
      <3> SUFFICES ASSUME NEW k \in TransferIds
                   PROVE  /\ rows'[k].status = "Completed" => Recorded(k)'
                          /\ Recorded(k)' => /\ Matches(k, transfers[k])'
                                             /\ moved'[k] >= transfers'[k].amount
        BY DEF RowInv
      <3>1. CASE k = key[s]
        <4>1. Recorded(k)' /\ Matches(k, transfers[k])'
          BY <1>2, <1>5, <2>2, <2>3, <3>1 DEF Recorded, Matches
        <4>2. moved'[k] >= transfers'[k].amount
          BY <2>1, <2>3, <2>4, <3>1
        <4> QED
          BY <4>1, <4>2
      <3>2. CASE k # key[s]
        BY <1>2, <2>3, <2>4, <3>2 DEF CoordInv, RowInv, Recorded, Matches
      <3> QED
        BY <3>1, <3>2
    <2>7. SessionInv(s)'
      BY <1>2, <1>4, <1>5, <1>9, <2>2, <2>3 DEF Moves, SessionInv, Serving, Statements, Recorded
    <2> QED
      BY <2>5, <2>6, <2>7
  <1>10. Goal
    BY <1>4, <1>7, <1>8, <1>9
  <1> QED
    BY <1>2, <1>3, <1>4, <1>6, <1>10, SessionStepInv

-----------------------------------------------------------------------------
\* Every step of the coordinator and of what it talks to keeps the invariant.
LEMMA NextCoordInv == CoordInv /\ [CoordinatorNext]_allVars => CoordInv'
  <1> SUFFICES ASSUME CoordInv, [CoordinatorNext]_allVars PROVE CoordInv'
    OBVIOUS
  <1>1. CASE UNCHANGED allVars
    <2>1. UNCHANGED vars /\ UNCHANGED coordinatorVars
      BY <1>1 DEF allVars
    <2>2. IInv' /\ KeyInv'
      BY <2>1, NextIInv, NextKeyInv DEF CoordInv
    <2>3. UNCHANGED <<pc, key, draft, reply, transfers, moved>>
      BY <2>1 DEF vars, serviceVars, sessionVars, storeVars
    <2>4. CoordinatorTypeOK'
      BY <2>1 DEF coordinatorVars, CoordInv, CoordinatorTypeOK
    <2>5. RowInv'
      BY <2>1, <2>3 DEF coordinatorVars, CoordInv, RowInv, Recorded, Matches
    <2>6. \A s \in Sessions : SessionInv(s)'
      BY <2>1, <2>3 DEF coordinatorVars, CoordInv, SessionInv, Serving, Recorded, Matches
    <2>7. \A h \in Handlers : PostInv(h)'
      BY <2>1, <2>3 DEF coordinatorVars, CoordInv, PostInv, Recorded
    <2>8. \A h \in Handlers : CallInv(h)'
      BY <2>1, <2>3 DEF coordinatorVars, CoordInv, CallInv
    <2> QED
      BY <2>2, <2>4, <2>5, <2>6, <2>7, <2>8 DEF CoordInv
  <1>2. ASSUME NEW h \in Handlers, NEW r \in Posts, ReceivePost(h, r) PROVE CoordInv'
    BY <1>2, ReceivePostInv
  <1>3. ASSUME NEW h \in Handlers, HandlerStep(h) PROVE CoordInv'
    BY <1>3, InsertInv, SelectInv, SendInv, AnsweredInv, CompleteInv, FailInv, LastStepsInv
       DEF HandlerStep
  <1>4. ASSUME NEW h \in Handlers, GiveUp(h) \/ Hangup(h) PROVE CoordInv'
    BY <1>4, LastStepsInv
  <1>5. ASSUME NEW s \in Sessions, Deliver(s) \/ Lose(s) \/ Serve(s) \/ Drop(s) PROVE CoordInv'
    BY <1>5, DeliverInv, LossInv, ServeInv
  <1> QED
    BY <1>1, <1>2, <1>3, <1>4, <1>5 DEF CoordinatorNext

\* CoordInv holds in every reachable state.
THEOREM CoordInvariance == CoordinatorSpec => []CoordInv
  BY InitCoordInv, NextCoordInv, PTL DEF CoordinatorSpec

\* Every variable of the coordinator has its type.
THEOREM CoordinatorTypes == CoordinatorSpec => []CoordinatorTypeOK
  <1>1. CoordInv => CoordinatorTypeOK
    BY DEF CoordInv
  <1> QED
    BY <1>1, CoordInvariance, PTL

\* Whatever clients repeat, answers that come late and calls that are lost, what
\* moves under a key is what its row says, although account-service compares
\* nothing.  TransferCoordinator.cs:11-12, 31-43.
THEOREM RowsTellWhatMoved == CoordinatorSpec => []MovedAsRecorded
  <1>1. CoordInv => MovedAsRecorded
    BY DEF CoordInv, RowInv, Matches, MovedAsRecorded
  <1> QED
    BY <1>1, CoordInvariance, PTL

\* A client that is told Completed had its own transfer committed, payload and
\* all, by this attempt or an earlier one.  TransferCoordinator.cs:13-18.
THEOREM CompletedIsTrue == CoordinatorSpec => []OkMeansMoved
  <1>1. CoordInv => OkMeansMoved
    <2> SUFFICES ASSUME CoordInv, NEW h \in Handlers, response[h] = "OK"
                 PROVE  /\ rows[post[h].id].status # "Pending"
                        /\ SamePayload(rows[post[h].id], post[h])
                        /\ moved[post[h].id] >= post[h].amount
      BY DEF OkMeansMoved
    <2>1. /\ post[h] \in Posts /\ SamePayload(rows[post[h].id], post[h])
          /\ rows[post[h].id].status # "Pending" /\ Recorded(post[h].id)
      BY DEF CoordInv, PostInv
    <2>2. post[h].id \in TransferIds
      BY <2>1, PostTypes
    <2>3. /\ Matches(post[h].id, transfers[post[h].id])
          /\ moved[post[h].id] >= transfers[post[h].id].amount
      BY <2>1, <2>2 DEF CoordInv, RowInv
    <2>4. rows[post[h].id].amount = post[h].amount
      BY <2>1 DEF SamePayload, RowOf
    <2> QED
      BY <2>1, <2>3, <2>4 DEF Matches
  <1> QED
    BY <1>1, CoordInvariance, PTL

-----------------------------------------------------------------------------
(* Keys that no two attempts worked at together *)

At(h, k) == step[h] \in Working /\ post[h].id = k
OnCall(s, k) == wire[s].id = k \/ (Serving(s) /\ key[s] = k)

\* Such a key has one handler and one call, and the handler waits for the call.
AttemptInv ==
    \A k \in TransferIds \ contended :
        /\ \A g, h \in Handlers : At(g, k) /\ At(h, k) => g = h
        /\ \A s, t \in Sessions : OnCall(s, k) /\ OnCall(t, k) => s = t
        /\ \A h \in Handlers, s \in Sessions :
               At(h, k) /\ OnCall(s, k) => step[h] = "await" /\ call[h] = s

\* The handler has, or will have, an answer of account-service below 500.
Refused(h) ==
    \/ step[h] = "fail"
    \/ /\ step[h] = "await"
       /\ pc[call[h]] = "done" /\ reply[call[h]] \notin {"COMPLETED", "ERROR"}

\* A refusal stays true until the row says so.
RefusalInv ==
    \A h \in Handlers :
        Refused(h) /\ post[h].id \notin contended => ~Recorded(post[h].id)

AloneInv == AttemptInv /\ OverlapOnlyWhenContended /\ RefusalInv

LEMMA InitAloneInv == CoordinatorInit => AloneInv
  <1> SUFFICES ASSUME CoordinatorInit PROVE AloneInv
    OBVIOUS
  <1> USE DEF CoordinatorInit, Init, ServiceInit
  <1>1. AttemptInv
    BY ServiceAssumption DEF AttemptInv, At, OnCall, Working, Serving, Statements, NoCall, KeyIds
  <1>2. OverlapOnlyWhenContended /\ RefusalInv
    BY DEF OverlapOnlyWhenContended, RefusalInv, Refused
  <1> QED
    BY <1>1, <1>2 DEF AloneInv

\* Attempts that only move on or end keep to themselves.
LEMMA FewerAttempts ==
    ASSUME AttemptInv, contended' = contended,
           \A h \in Handlers : step'[h] \in Working => step[h] \in Working /\ post'[h] = post[h],
           \A s \in Sessions, k \in TransferIds : OnCall(s, k)' => OnCall(s, k),
           \A h \in Handlers :
               step'[h] \in Working /\ step[h] = "await" =>
                   \/ step'[h] = "await" /\ call'[h] = call[h]
                   \/ \A s \in Sessions, k \in TransferIds : call[h] = s => ~OnCall(s, k)'
    PROVE  AttemptInv'
  <1> SUFFICES ASSUME NEW k \in TransferIds \ contended
               PROVE  /\ \A g, h \in Handlers : At(g, k)' /\ At(h, k)' => g = h
                      /\ \A s, t \in Sessions : OnCall(s, k)' /\ OnCall(t, k)' => s = t
                      /\ \A h \in Handlers, s \in Sessions :
                             At(h, k)' /\ OnCall(s, k)' => step'[h] = "await" /\ call'[h] = s
    BY DEF AttemptInv
  <1>1. \A h \in Handlers : At(h, k)' => At(h, k) /\ step'[h] \in Working
    BY DEF At
  <1>2. \A s \in Sessions : OnCall(s, k)' => OnCall(s, k)
    OBVIOUS
  <1>3. \A g, h \in Handlers : At(g, k)' /\ At(h, k)' => g = h
    BY <1>1 DEF AttemptInv
  <1>4. \A s, t \in Sessions : OnCall(s, k)' /\ OnCall(t, k)' => s = t
    BY <1>2 DEF AttemptInv
  <1>5. ASSUME NEW h \in Handlers, NEW s \in Sessions, At(h, k)', OnCall(s, k)'
        PROVE  step'[h] = "await" /\ call'[h] = s
    <2>1. step[h] = "await" /\ call[h] = s
      BY <1>1, <1>2, <1>5 DEF AttemptInv
    <2>2. step'[h] \in Working
      BY <1>1, <1>5
    <2> QED
      BY <1>5, <2>1, <2>2
  <1> QED
    BY <1>3, <1>4, <1>5

LEMMA RefusalKept ==
    ASSUME CoordInv, RefusalInv, contended \subseteq contended',
           \A k \in TransferIds : Recorded(k)' => Recorded(k),
           \A h \in Handlers : Refused(h)' => Refused(h) /\ post'[h] = post[h]
    PROVE  RefusalInv'
  <1> SUFFICES ASSUME NEW h \in Handlers, Refused(h)', post'[h].id \notin contended'
               PROVE  ~Recorded(post[h].id)'
    BY DEF RefusalInv
  <1>1. post[h] \in Posts /\ post[h].id \in TransferIds
    BY PostTypes DEF CoordInv, PostInv, Refused, Working
  <1>2. Refused(h) /\ post'[h] = post[h] /\ post[h].id \notin contended
    OBVIOUS
  <1> QED
    BY <1>1, <1>2 DEF RefusalInv, Recorded

\* The steps of a handler that stay on its side of the call.
LEMMA HandlerAlone ==
    ASSUME CoordInv, AloneInv, NEW h \in Handlers,
           \/ Insert(h) \/ Select(h) \/ Complete(h) \/ Fail(h) \/ Reread(h)
           \/ GiveUp(h) \/ Hangup(h)
    PROVE  AloneInv'
  <1> USE HandlerFacts
  <1>1. /\ UNCHANGED <<vars, wire, contended>>
        /\ \A g \in Handlers \ {h} : /\ step'[g] = step[g] /\ post'[g] = post[g]
                                     /\ call'[g] = call[g]
        /\ step'[h] \notin {"await", "fail"}
        /\ step'[h] \in Working =>
               step[h] \in Working /\ step[h] # "await" /\ post'[h] = post[h]
    <2>1. CASE Insert(h)
      BY <2>1 DEF Insert, Goto, Working
    <2>2. CASE Select(h)
      BY <2>2 DEF Select, Goto, Respond, Working
    <2>3. CASE Complete(h)
      BY <2>3 DEF Complete, Goto, Working
    <2>4. CASE Fail(h)
      BY <2>4 DEF Fail, Goto, Respond, Working
    <2>5. CASE Reread(h)
      BY <2>5 DEF Reread, Goto, Respond, Working
    <2>6. CASE GiveUp(h)
      BY <2>6 DEF GiveUp, Goto, Respond, Working
    <2>7. CASE Hangup(h)
      BY <2>7 DEF Hangup, Goto, Working
    <2> QED
      BY <2>1, <2>2, <2>3, <2>4, <2>5, <2>6, <2>7
  <1>2. UNCHANGED <<pc, key, reply, transfers, overlapped>>
    BY <1>1 DEF vars, serviceVars, sessionVars
  <1>3. \A s \in Sessions, k \in TransferIds : OnCall(s, k)' => OnCall(s, k)
    BY <1>1, <1>2 DEF OnCall, Serving
  <1>4. AttemptInv'
    <2>1. \A g \in Handlers : step'[g] \in Working => step[g] \in Working /\ post'[g] = post[g]
      BY <1>1
    <2>2. \A g \in Handlers : step'[g] \in Working /\ step[g] = "await" =>
                                  step'[g] = "await" /\ call'[g] = call[g]
      BY <1>1
    <2> QED
      BY <1>1, <1>3, <2>1, <2>2, FewerAttempts DEF AloneInv
  <1>5. \A g \in Handlers : Refused(g)' => Refused(g) /\ post'[g] = post[g]
    BY <1>1, <1>2 DEF Refused
  <1>6. RefusalInv'
    BY <1>1, <1>2, <1>5, RefusalKept DEF AloneInv, Recorded
  <1>7. OverlapOnlyWhenContended'
    BY <1>1, <1>2 DEF AloneInv, OverlapOnlyWhenContended
  <1> QED
    BY <1>4, <1>6, <1>7 DEF AloneInv

\* A post that meets an attempt at its key makes the key contended; one that
\* does not is the only attempt.
LEMMA ReceivePostAlone ==
    ASSUME CoordInv, AloneInv, NEW h \in Handlers, NEW r \in Posts, ReceivePost(h, r)
    PROVE  AloneInv'
  <1> USE HandlerFacts
  <1>1. /\ step[h] = "idle" /\ post' = [post EXCEPT ![h] = r]
        /\ UNCHANGED <<vars, rows, call, wire>>
    BY DEF ReceivePost
  <1>2. \/ /\ step' = [step EXCEPT ![h] = "insert"]
           /\ contended' = contended \cup (IF InProgress(r.id) THEN {r.id} ELSE {})
        \/ step' = [step EXCEPT ![h] = "done"] /\ contended' = contended
    BY DEF ReceivePost, Goto
  <1>3. UNCHANGED <<pc, key, reply, transfers, overlapped>>
    BY <1>1 DEF vars, serviceVars, sessionVars
  <1>4. \A s \in Sessions, k \in TransferIds : OnCall(s, k)' <=> OnCall(s, k)
    BY <1>1, <1>3 DEF OnCall, Serving
  <1>5. contended \subseteq contended'
    BY <1>2
  <1>6. AttemptInv'
    <2> SUFFICES ASSUME NEW k \in TransferIds \ contended'
                 PROVE  /\ \A f, g \in Handlers : At(f, k)' /\ At(g, k)' => f = g
                        /\ \A s, t \in Sessions : OnCall(s, k)' /\ OnCall(t, k)' => s = t
                        /\ \A g \in Handlers, s \in Sessions :
                               At(g, k)' /\ OnCall(s, k)' => step'[g] = "await" /\ call'[g] = s
      BY DEF AttemptInv
    <2>1. k \notin contended
      BY <1>5
    <2>2. /\ \A f, g \in Handlers : At(f, k) /\ At(g, k) => f = g
          /\ \A s, t \in Sessions : OnCall(s, k) /\ OnCall(t, k) => s = t
          /\ \A g \in Handlers, s \in Sessions :
                 At(g, k) /\ OnCall(s, k) => step[g] = "await" /\ call[g] = s
      BY <2>1 DEF AloneInv, AttemptInv
    <2>3. \A g \in Handlers \ {h} :
              /\ At(g, k)' <=> At(g, k)
              /\ step'[g] = step[g] /\ call'[g] = call[g]
      BY <1>1, <1>2 DEF At
    <2>4. CASE At(h, k)'
      <3>1. k = r.id /\ step' = [step EXCEPT ![h] = "insert"]
        BY <1>1, <1>2, <2>4 DEF At, Working
      <3>2. ~InProgress(k)
        BY <1>2, <3>1
      <3>3. /\ \A g \in Handlers : ~At(g, k)
            /\ \A s \in Sessions : ~OnCall(s, k)
        BY <3>2 DEF InProgress, At, OnCall
      <3> QED
        BY <1>4, <2>3, <3>3
    <2>5. CASE ~At(h, k)'
      BY <1>4, <2>2, <2>3, <2>5
    <2> QED
      BY <2>4, <2>5
  <1>7. \A g \in Handlers : Refused(g)' => Refused(g) /\ post'[g] = post[g]
    BY <1>1, <1>2, <1>3 DEF Refused
  <1>8. RefusalInv'
    BY <1>3, <1>5, <1>7, RefusalKept DEF AloneInv, Recorded
  <1>9. OverlapOnlyWhenContended'
    BY <1>3, <1>5 DEF AloneInv, OverlapOnlyWhenContended
  <1> QED
    BY <1>6, <1>8, <1>9 DEF AloneInv

\* The call of the only attempt is the only call.
LEMMA SendAlone ==
    ASSUME CoordInv, AloneInv, NEW h \in Handlers, NEW s \in Sessions, Send(h, s)
    PROVE  AloneInv'
  <1> USE HandlerFacts
  <1>1. /\ step[h] = "send" /\ step' = [step EXCEPT ![h] = "await"]
        /\ pc[s] = "idle" /\ wire[s] = NoCall /\ ~Awaited(s)
        /\ call' = [call EXCEPT ![h] = s]
        /\ wire' = [wire EXCEPT ![s] = CallOf(post[h])]
        /\ UNCHANGED <<vars, rows, post, response, contended>>
    BY DEF Send, Goto
  <1>2. UNCHANGED <<pc, key, reply, transfers, overlapped>>
    BY <1>1 DEF vars, serviceVars, sessionVars
  <1>3. \A g \in Handlers \ {h} : step'[g] = step[g] /\ call'[g] = call[g]
    BY <1>1
  <1>4. step'[h] = "await" /\ call'[h] = s /\ wire'[s].id = post[h].id
    BY <1>1 DEF CallOf
  <1>5. AttemptInv'
    <2> SUFFICES ASSUME NEW k \in TransferIds \ contended
                 PROVE  /\ \A f, g \in Handlers : At(f, k)' /\ At(g, k)' => f = g
                        /\ \A t, u \in Sessions : OnCall(t, k)' /\ OnCall(u, k)' => t = u
                        /\ \A g \in Handlers, t \in Sessions :
                               At(g, k)' /\ OnCall(t, k)' => step'[g] = "await" /\ call'[g] = t
      BY <1>1 DEF AttemptInv
    <2>1. /\ \A f, g \in Handlers : At(f, k) /\ At(g, k) => f = g
          /\ \A t, u \in Sessions : OnCall(t, k) /\ OnCall(u, k) => t = u
          /\ \A g \in Handlers, t \in Sessions :
                 At(g, k) /\ OnCall(t, k) => step[g] = "await" /\ call[g] = t
      BY DEF AloneInv, AttemptInv
    <2>2. \A g \in Handlers : At(g, k)' <=> At(g, k)
      BY <1>1 DEF At, Working
    <2>3. \A t \in Sessions \ {s} : OnCall(t, k)' <=> OnCall(t, k)
      BY <1>1, <1>2 DEF OnCall, Serving
    <2>4. OnCall(s, k)' <=> post[h].id = k
      BY <1>1, <1>2, <1>4 DEF OnCall, Serving, Statements
    <2>5. CASE post[h].id = k
      <3>1. At(h, k) /\ \A t \in Sessions : ~OnCall(t, k)
        BY <1>1, <2>1, <2>5 DEF At, Working
      <3> QED
        BY <1>4, <2>1, <2>2, <2>3, <3>1
    <2>6. CASE post[h].id # k
      <3>1. ~At(h, k)
        BY <2>6 DEF At
      <3> QED
        BY <1>3, <2>1, <2>2, <2>3, <2>4, <2>6, <3>1
    <2> QED
      BY <2>5, <2>6
  <1>6. \A g \in Handlers : Refused(g)' => Refused(g) /\ post'[g] = post[g]
    BY <1>1, <1>2, <1>3, <1>4 DEF Refused
  <1>7. RefusalInv'
    BY <1>1, <1>2, <1>6, RefusalKept DEF AloneInv, Recorded
  <1>8. OverlapOnlyWhenContended'
    BY <1>1, <1>2 DEF AloneInv, OverlapOnlyWhenContended
  <1> QED
    BY <1>5, <1>7, <1>8 DEF AloneInv

\* The only call of a key ends with the answer, before the handler goes on.
LEMMA AnsweredAlone ==
    ASSUME CoordInv, AloneInv, NEW h \in Handlers, Answered(h)
    PROVE  AloneInv'
  <1> USE HandlerFacts
  <1>1. /\ step[h] = "await" /\ call[h] \in Sessions /\ Return(call[h])
        /\ UNCHANGED <<rows, wire, post, contended>> /\ call' = [call EXCEPT ![h] = NoSession]
        /\ \/ step' = [step EXCEPT ![h] = "complete"]
           \/ /\ step' = [step EXCEPT ![h] = "fail"]
              /\ reply[call[h]] \notin {"COMPLETED", "ERROR"}
           \/ step' = [step EXCEPT ![h] = "done"]
    BY DEF Answered, CallInv, Goto, Respond
  <1>2. PICK s \in Sessions : s = call[h]
    BY <1>1
  <1>3. /\ pc[s] = "done" /\ pc'[s] = "idle" /\ wire[s] = NoCall
        /\ UNCHANGED <<transfers, overlapped>>
        /\ \A t \in Sessions \ {s} : pc'[t] = pc[t] /\ key'[t] = key[t] /\ reply'[t] = reply[t]
    BY <1>1, <1>2, ReturnEffect
  <1>4. \A t \in Sessions, k \in TransferIds : OnCall(t, k)' => t # s /\ OnCall(t, k)
    BY <1>1, <1>3, ServiceAssumption DEF OnCall, Serving, Statements, NoCall, KeyIds
  <1>5. AttemptInv'
    <2>1. \A g \in Handlers : step'[g] \in Working => step[g] \in Working /\ post'[g] = post[g]
      BY <1>1 DEF Working
    <2>2. \A g \in Handlers \ {h} : step'[g] = step[g] /\ call'[g] = call[g]
      BY <1>1
    <2>3. \A t \in Sessions, k \in TransferIds : call[h] = t => ~OnCall(t, k)'
      BY <1>2, <1>4
    <2> QED
      BY <1>1, <1>4, <2>1, <2>2, <2>3, FewerAttempts DEF AloneInv
  <1>6. ASSUME NEW g \in Handlers, Refused(g)' PROVE Refused(g) /\ post'[g] = post[g]
    <2>1. CASE g = h
      BY <1>1, <1>2, <1>3, <1>6, <2>1 DEF Refused
    <2>2. CASE g # h
      <3>1. step'[g] = step[g] /\ call'[g] = call[g] /\ CallInv(g)
        BY <1>1, <2>2
      <3>2. call[g] # s
        BY <1>1, <1>2, <2>2 DEF CallInv
      <3> QED
        BY <1>1, <1>3, <1>6, <3>1, <3>2 DEF Refused, CallInv
    <2> QED
      BY <2>1, <2>2
  <1>7. RefusalInv'
    BY <1>1, <1>3, <1>6, RefusalKept DEF AloneInv, Recorded
  <1>8. OverlapOnlyWhenContended'
    BY <1>1, <1>3 DEF AloneInv, OverlapOnlyWhenContended
  <1> QED
    BY <1>5, <1>7, <1>8 DEF AloneInv

\* What a step on the other side of the call must show.
LEMMA SessionAlone ==
    ASSUME CoordInv, AloneInv, UNCHANGED <<step, post, call, contended>>,
           \A s \in Sessions, k \in TransferIds : OnCall(s, k)' => OnCall(s, k),
           RefusalInv', overlapped' \subseteq contended
    PROVE  AloneInv'
  <1>1. AttemptInv'
    BY FewerAttempts DEF AloneInv
  <1> QED
    BY <1>1 DEF AloneInv, OverlapOnlyWhenContended

\* Two requests meet in account-service only for a contended key.
LEMMA DeliverAlone ==
    ASSUME CoordInv, AloneInv, NEW s \in Sessions, Deliver(s)
    PROVE  AloneInv'
  <1> USE StateFacts
  <1>1. /\ wire[s] # NoCall /\ ReceiveTransfer(s, wire[s])
        /\ wire' = [wire EXCEPT ![s] = NoCall]
        /\ UNCHANGED <<rows, step, post, call, response, contended>>
    BY DEF Deliver
  <1>2. SessionInv(s) /\ TypeOK
    BY DEF CoordInv, IInv
  <1>3. PICK r \in Posts : wire[s] = CallOf(r) /\ Valid(r)
    BY <1>1, <1>2 DEF SessionInv, Calls
  <1>4. CallOf(r).id = r.id /\ r.id \in TransferIds /\ r.amount \in Int /\ r.amount > 0
    BY <1>3, PostTypes, PostsAssumption DEF PostRequest, Valid
  <1>5. /\ pc[s] = "idle" /\ pc'[s] = "existsById" /\ key'[s] = r.id
        /\ UNCHANGED <<transfers, reply>> /\ overlapped' = overlapped \cup Overlap(r.id)
    BY <1>1, <1>2, <1>3, <1>4 DEF ReceiveTransfer, GoTo, CallOf, Valid, TypeOK, ServiceTypeOK
  <1>6. \A t \in Sessions \ {s} : wire'[t] = wire[t] /\ pc'[t] = pc[t] /\ key'[t] = key[t]
    BY <1>1, <1>2 DEF ReceiveTransfer, GoTo, TypeOK, ServiceTypeOK
  <1>7. \A t \in Sessions, k \in TransferIds : OnCall(t, k)' => OnCall(t, k)
    BY <1>1, <1>3, <1>4, <1>5, <1>6, ServiceAssumption DEF OnCall, Serving, NoCall, KeyIds
  <1>8. \A h \in Handlers : Refused(h)' => Refused(h) /\ post'[h] = post[h]
    BY <1>1, <1>5, <1>6 DEF Refused, CoordInv, CallInv
  <1>9. RefusalInv'
    BY <1>1, <1>5, <1>8, RefusalKept DEF AloneInv, Recorded
  <1>10. r.id \notin contended => Overlap(r.id) = {}
    <2> SUFFICES ASSUME r.id \notin contended, NEW t \in Sessions, Serving(t), key[t] = r.id
                 PROVE  FALSE
      BY DEF Overlap
    <2>1. OnCall(t, r.id) /\ OnCall(s, r.id) /\ t # s
      BY <1>3, <1>4, <1>5 DEF OnCall, Serving, Statements
    <2> QED
      BY <1>4, <2>1 DEF AloneInv, AttemptInv
  <1>11. overlapped' \subseteq contended
    BY <1>5, <1>10 DEF AloneInv, OverlapOnlyWhenContended, Overlap
  <1> QED
    BY <1>1, <1>7, <1>9, <1>11, SessionAlone

LEMMA LossAlone ==
    ASSUME CoordInv, AloneInv, NEW s \in Sessions, Lose(s) \/ Drop(s)
    PROVE  AloneInv'
  <1> USE StateFacts
  <1>1. /\ UNCHANGED <<step, post, call, contended, transfers, overlapped>>
        /\ \A t \in Sessions : wire'[t] = wire[t] \/ wire'[t] = NoCall
        /\ \A t \in Sessions : \/ pc'[t] = pc[t] /\ key'[t] = key[t] /\ reply'[t] = reply[t]
                               \/ pc'[t] = "idle"
    <2>1. CASE Lose(s)
      BY <2>1 DEF Lose, vars, serviceVars, sessionVars
    <2>2. CASE Drop(s)
      BY <2>2, ReturnEffect DEF Drop, coordinatorVars
    <2> QED
      BY <2>1, <2>2
  <1>2. \A t \in Sessions, k \in TransferIds : OnCall(t, k)' => OnCall(t, k)
    BY <1>1, ServiceAssumption DEF OnCall, Serving, Statements, NoCall, KeyIds
  <1>3. \A h \in Handlers : Refused(h)' => Refused(h) /\ post'[h] = post[h]
    BY <1>1 DEF Refused, CoordInv, CallInv
  <1>4. RefusalInv'
    BY <1>1, <1>3, RefusalKept DEF AloneInv, Recorded
  <1>5. overlapped' \subseteq contended
    BY <1>1 DEF AloneInv, OverlapOnlyWhenContended
  <1> QED
    BY <1>1, <1>2, <1>4, <1>5, SessionAlone

\* A record appears only under a call, and an answer that refuses it is true.
LEMMA ServeAlone ==
    ASSUME CoordInv, AloneInv, NEW s \in Sessions, Serve(s)
    PROVE  AloneInv'
  <1> USE StateFacts
  <1>1. /\ Step(s) \/ Crash(s)
        /\ UNCHANGED <<rows, step, post, call, wire, response, contended>>
    BY DEF Serve, coordinatorVars
  <1>2. /\ Serving(s) /\ UNCHANGED <<key, overlapped>>
        /\ \A t \in Sessions \ {s} : pc'[t] = pc[t] /\ reply'[t] = reply[t]
        /\ MovesOn(s) \/ Ends(s) \/ Moves(s)
    BY <1>1, ServeEffect
  <1>3. \A t \in Sessions, k \in TransferIds : OnCall(t, k)' => OnCall(t, k)
    BY <1>1, <1>2 DEF OnCall, Serving
  <1>4. overlapped' \subseteq contended
    BY <1>2 DEF AloneInv, OverlapOnlyWhenContended
  <1>5. key[s] \in TransferIds /\ OnCall(s, key[s])
    BY <1>2 DEF CoordInv, SessionInv, OnCall
  <1>6. ASSUME NEW h \in Handlers, Refused(h)', post[h].id \notin contended
        PROVE  ~Recorded(post[h].id)'
    <2>1. /\ CallInv(h) /\ step[h] \in {"fail", "await"} /\ step[h] \in Working
          /\ post[h].id \in TransferIds
      BY <1>1, <1>6, PostTypes DEF Refused, CoordInv, PostInv, Working
    <2>2. CASE step[h] = "await" /\ call[h] = s
      <3>1. post[h].id = key[s]
        BY <1>2, <2>1, <2>2 DEF CallInv, Serving, Statements
      <3>2. pc'[s] = "done" /\ reply'[s] \notin {"COMPLETED", "ERROR"}
        BY <1>1, <1>6, <2>2 DEF Refused
      <3>3. Ends(s)
        BY <1>2, <3>2 DEF MovesOn, Moves, Ready
      <3>4. key[s] \notin overlapped
        BY <1>6, <3>1 DEF AloneInv, OverlapOnlyWhenContended
      <3> QED
        BY <1>1, <3>1, <3>2, <3>3, <3>4 DEF Ends, Recorded
    <2>3. CASE step[h] = "fail" \/ call[h] # s
      <3>1. Refused(h)
        BY <1>1, <1>2, <1>6, <2>1, <2>3 DEF Refused, CallInv
      <3>2. ~Recorded(post[h].id)
        BY <1>6, <3>1 DEF AloneInv, RefusalInv
      <3>3. key[s] # post[h].id
        <4>1. SUFFICES ASSUME key[s] = post[h].id PROVE FALSE
          OBVIOUS
        <4>2. step[h] = "await" /\ call[h] = s
          BY <1>5, <1>6, <2>1, <4>1 DEF AloneInv, AttemptInv, At
        <4> QED
          BY <2>3, <4>2
      <3>4. transfers'[post[h].id] = transfers[post[h].id]
        BY <1>2, <2>1, <3>3 DEF MovesOn, Ends, Moves, CoordInv, IInv, TypeOK, ServiceTypeOK, KeyIds
      <3> QED
        BY <1>1, <3>2, <3>4 DEF Recorded
    <2> QED
      BY <2>1, <2>2, <2>3
  <1>7. RefusalInv'
    BY <1>1, <1>6 DEF RefusalInv
  <1> QED
    BY <1>1, <1>3, <1>4, <1>7, SessionAlone

\* Every step keeps it.
LEMMA NextAloneInv == CoordInv /\ AloneInv /\ [CoordinatorNext]_allVars => AloneInv'
  <1> SUFFICES ASSUME CoordInv, AloneInv, [CoordinatorNext]_allVars PROVE AloneInv'
    OBVIOUS
  <1>1. CASE UNCHANGED allVars
    <2>1. UNCHANGED <<pc, key, reply, transfers, overlapped, step, post, call, wire, contended>>
      BY <1>1 DEF allVars, vars, serviceVars, sessionVars, coordinatorVars
    <2>2. AttemptInv'
      BY <2>1 DEF AloneInv, AttemptInv, At, OnCall, Serving
    <2>3. OverlapOnlyWhenContended' /\ RefusalInv'
      BY <2>1 DEF AloneInv, OverlapOnlyWhenContended, RefusalInv, Refused, Recorded
    <2> QED
      BY <2>2, <2>3 DEF AloneInv
  <1>2. ASSUME NEW h \in Handlers, NEW r \in Posts, ReceivePost(h, r) PROVE AloneInv'
    BY <1>2, ReceivePostAlone
  <1>3. ASSUME NEW h \in Handlers, HandlerStep(h) PROVE AloneInv'
    BY <1>3, HandlerAlone, SendAlone, AnsweredAlone DEF HandlerStep
  <1>4. ASSUME NEW h \in Handlers, GiveUp(h) \/ Hangup(h) PROVE AloneInv'
    BY <1>4, HandlerAlone
  <1>5. ASSUME NEW s \in Sessions, Deliver(s) \/ Lose(s) \/ Serve(s) \/ Drop(s) PROVE AloneInv'
    BY <1>5, DeliverAlone, LossAlone, ServeAlone
  <1> QED
    BY <1>1, <1>2, <1>3, <1>4, <1>5 DEF CoordinatorNext

\* It holds in every reachable state.
THEOREM AloneInvariance == CoordinatorSpec => []AloneInv
  BY InitAloneInv, NextAloneInv, CoordInvariance, PTL DEF CoordinatorSpec

\* account-service, whose lookup is not locked, never sees two requests with one
\* key at once unless a client repeated it while an attempt went on.
\* PostgresTransactionRepository.cs:13-38, AccountService.java:101.
THEOREM OverlapsAreContended == CoordinatorSpec => []OverlapOnlyWhenContended
  <1>1. AloneInv => OverlapOnlyWhenContended
    BY DEF AloneInv
  <1> QED
    BY <1>1, AloneInvariance, PTL

\* The status written of such a key is in step with its money.
LEMMA StatusStep ==
    CoordInv /\ AloneInv /\ [CoordinatorNext]_allVars => [StatusWritten]_allVars
  <1> SUFFICES ASSUME CoordInv, AloneInv, CoordinatorNext,
                      NEW k \in TransferIds \ contended', rows'[k] # rows[k]
               PROVE  moved[k] = IF rows'[k].status = "Completed" THEN rows'[k].amount ELSE 0
    BY DEF StatusWritten
  <1> USE StateFacts
  <1>1. PICK h \in Handlers : Insert(h) \/ Complete(h) \/ Fail(h)
    BY DEF CoordinatorNext, HandlerStep, ReceivePost, Select, Send, Answered, Reread, GiveUp,
           Hangup, Deliver, Lose, Serve, Drop, coordinatorVars
  <1>2. contended' = contended /\ post' = post /\ post[h] \in Posts /\ post[h].id \in TransferIds
    BY <1>1, PostTypes DEF Insert, Complete, Fail, Respond, CoordInv, PostInv, Working
  <1>3. /\ Recorded(k) <=> moved[k] > 0
        /\ k \notin overlapped => moved[k] = transfers[k].amount
        /\ moved[k] \in Nat /\ k \notin overlapped
    BY <1>2, ServiceAssumption
       DEF CoordInv, KeyInv, KeysMoved, KeyIds, IInv, TypeOK, StoreTypeOK, AloneInv,
           OverlapOnlyWhenContended
  <1>4. CASE Insert(h)
    <2>1. k = post[h].id /\ rows[k] = NoRow /\ rows'[k] = RowOf(post[h], "Pending")
      BY <1>2, <1>4 DEF Insert
    <2>2. ~Recorded(k)
      BY <2>1 DEF CoordInv, RowInv, Matches
    <2> QED
      BY <1>3, <2>1, <2>2 DEF RowOf
  <1>5. CASE Complete(h)
    <2>1. /\ step[h] = "complete" /\ rows[post[h].id] # NoRow
          /\ SamePayload(rows[post[h].id], post[h]) /\ Recorded(post[h].id)
      BY <1>5 DEF Complete, CoordInv, PostInv, Working, Agreed
    <2>2. k = post[h].id /\ rows'[k] = RowOf(post[h], "Completed") /\ RowsGrow
      BY <1>2, <1>5, <2>1, StatusUpdate DEF Complete
    <2>3. rows'[k].status = "Completed" /\ rows'[k].amount = rows[k].amount
      BY <2>1, <2>2 DEF RowsGrow, RowOf
    <2>4. Matches(k, transfers[k])
      BY <2>1, <2>2 DEF CoordInv, RowInv
    <2> QED
      BY <1>3, <2>3, <2>4 DEF Matches
  <1>6. CASE Fail(h)
    <2>1. /\ step[h] = "fail" /\ rows[post[h].id] # NoRow
          /\ SamePayload(rows[post[h].id], post[h])
      BY <1>6 DEF Fail, CoordInv, PostInv, Working, Agreed
    <2>2. k = post[h].id /\ rows'[k] = RowOf(post[h], "Failed")
      BY <1>2, <1>6, <2>1, StatusUpdate DEF Fail
    <2>3. ~Recorded(k)
      BY <1>2, <2>1, <2>2 DEF AloneInv, RefusalInv, Refused
    <2> QED
      BY <1>3, <2>2, <2>3 DEF RowOf
  <1> QED
    BY <1>1, <1>4, <1>5, <1>6

\* For a key no two attempts worked at together, the row says Failed only when
\* nothing has moved and Completed only when its amount has moved once, although
\* the UPDATE looks at no status.  PostgresTransactionRepository.cs:69-76.
THEOREM StatusesFollowMoney == CoordinatorSpec => StatusFollowsMoney
  BY CoordInvariance, AloneInvariance, StatusStep, PTL DEF CoordinatorSpec, StatusFollowsMoney
-----------------------------------------------------------------------------
(* What is proved of account-service holds behind the coordinator *)

\* Every step of the coordinator is one of account-service, or leaves it alone.
LEMMA ServiceStep ==
    ASSUME CoordInv, [CoordinatorNext]_allVars
    PROVE  [Next]_vars
  <1>1. ASSUME NEW h \in Handlers, NEW r \in Posts, ReceivePost(h, r) PROVE UNCHANGED vars
    BY <1>1 DEF ReceivePost
  <1>2. ASSUME NEW h \in Handlers, Answered(h) PROVE Next
    <2>1. call[h] \in Sessions
      BY <1>2 DEF Answered, CoordInv, CoordinatorTypeOK, CallInv
    <2> QED
      BY <1>2, <2>1 DEF Answered, Next
  <1>3. ASSUME NEW h \in Handlers,
               \/ Insert(h) \/ Select(h) \/ (\E s \in Sessions : Send(h, s))
               \/ Complete(h) \/ Fail(h) \/ Reread(h) \/ GiveUp(h) \/ Hangup(h)
        PROVE  UNCHANGED vars
    BY <1>3 DEF Insert, Select, Send, Complete, Fail, Reread, GiveUp, Hangup
  <1>4. ASSUME NEW s \in Sessions, Deliver(s) PROVE Next
    <2>1. PICK r \in Posts : wire[s] = CallOf(r)
      BY <1>4 DEF Deliver, CoordInv, SessionInv, Calls
    <2>2. wire[s] \in Transfers
      BY <2>1, PostTypes
    <2> QED
      BY <1>4, <2>2 DEF Deliver, Next, Receive
  <1>5. ASSUME NEW s \in Sessions, Lose(s) PROVE UNCHANGED vars
    BY <1>5 DEF Lose
  <1>6. ASSUME NEW s \in Sessions, Serve(s) \/ Drop(s) PROVE Next
    BY <1>6 DEF Serve, Drop, Next
  <1>7. CASE UNCHANGED allVars
    BY <1>7 DEF allVars
  <1> QED
    BY <1>1, <1>2, <1>3, <1>4, <1>5, <1>6, <1>7 DEF CoordinatorNext, HandlerStep

\* Behind the coordinator account-service behaves as it does alone: calls that
\* arrive late, are lost or are answered to nobody are requests like any others
\* (TransferCoordinator.cs:11-18).
THEOREM CoordinatorUsesService == CoordinatorSpec => Spec
  <1>1. CoordinatorInit => Init
    BY DEF CoordinatorInit
  <1>2. CoordInv /\ [CoordinatorNext]_allVars => [Next]_vars
    BY ServiceStep
  <1> QED
    BY <1>1, <1>2, CoordInvariance, PTL DEF CoordinatorSpec, Spec

\* What README-banking.md:95-97 promises, as far as it is true: repeating a
\* request moves its amount once, unless a repetition was sent while an earlier
\* attempt, its call included, was still going on.  RepeatsMoveOnce, without the
\* exception, is violated.
THEOREM ApartRepetitionsMoveOnce ==
    CoordinatorSpec =>
        [](\A k \in TransferIds \ contended : Recorded(k) => moved[k] = transfers[k].amount)
  <1> DEFINE MovesOnce ==
        \A k \in TransferIds \ contended : Recorded(k) => moved[k] = transfers[k].amount
  <1>1. SerialKeysMoveOnce /\ OverlapOnlyWhenContended => MovesOnce
    BY DEF SerialKeysMoveOnce, OverlapOnlyWhenContended, KeyIds
  <1> QED
    BY <1>1, CoordinatorUsesService, SerialRetriesMoveOnce, OverlapsAreContended, PTL
=============================================================================
