--------------------------- MODULE AccountService ---------------------------
(***************************************************************************)
(* AccountService.java: the transactions that move money between accounts, *)
(* transfer (lines 95-118) and reverse (lines 120-160), run concurrently   *)
(* by Sessions at READ COMMITTED.  Each SQL statement that can wait, or    *)
(* that reads a table other transactions write, is a step of its own; a    *)
(* session keeps what it computed to itself until Commit flushes it.       *)
(*                                                                         *)
(* The @Version column of Account is left out: LoadedRowsAreCurrent says   *)
(* that the row locks alone keep every loaded row current, so its check    *)
(* cannot fail between the transactions modelled here.  AuthService, which *)
(* is not, writes whole accounts rows under @Version without locking them. *)
(***************************************************************************)
EXTENDS AccountStore

CONSTANTS
    TransferIds,     \* transactionIds, from the Idempotency-Key of a transfer
    ReversalIds,     \* reversalIds
    NoId,            \* a null reversalOf
    Transfers        \* the transfer requests a client may send

KeyIds == TransferIds \cup ReversalIds

TransferRequest ==
    [id : TransferIds, source : Nat, destination : Nat, amount : Int]

ASSUME ServiceAssumption ==
    /\ TransferIds \cap ReversalIds = {}
    /\ KeyIds \subseteq Journals
    /\ NoId \notin KeyIds
    /\ Transfers \subseteq TransferRequest

VARIABLES
    transfers,   \* processed_transfers, committed: a TransferRecord for each id
    pc,          \* the next statement of each session
    key,         \* the id its request carries
    draft,       \* the TransferRecord its transaction will save
    entity,      \* the balances of the accounts entities it has loaded
    found,       \* whether the SELECT of save's merge found the id
    reply,       \* the answer to its request
    overlapped   \* history: the ids that two requests carried at the same time

sessionVars == <<pc, key, draft, entity, found, reply>>
serviceVars == <<transfers, sessionVars, overlapped>>
vars == <<storeVars, serviceVars>>

TransferRecord ==
    [source : Nat, destination : Nat, amount : Int, reversalOf : KeyIds \cup {NoId}]

\* The absent row, and the record of a reversal before its original is read.
NoRecord == [source |-> 0, destination |-> 0, amount |-> 0, reversalOf |-> NoId]

Statements == {"existsById", "findReversal", "findPrior", "findOriginal",
               "lockFirst", "lockSecond", "apply", "commit"}

Replies == {"NONE", "COMPLETED", "INVALID", "CONFLICT", "NOT_FOUND",
            "INSUFFICIENT_FUNDS", "ERROR"}

NoEntity == [a \in Accounts |-> 0]

ServiceTypeOK ==
    /\ transfers \in [KeyIds -> TransferRecord]
    /\ pc \in [Sessions -> Statements \cup {"idle", "done"}]
    /\ key \in [Sessions -> KeyIds \cup {NoId}]
    /\ draft \in [Sessions -> TransferRecord]
    /\ entity \in [Sessions -> [Accounts -> Int]]
    /\ found \in [Sessions -> BOOLEAN]
    /\ reply \in [Sessions -> Replies]
    /\ overlapped \subseteq KeyIds

\* Every variable has its type; no committed balance is negative.
TypeOK == StoreTypeOK /\ ServiceTypeOK

ServiceInit ==
    /\ transfers = [k \in KeyIds |-> NoRecord]
    /\ pc = [s \in Sessions |-> "idle"]
    /\ key = [s \in Sessions |-> NoId]
    /\ draft = [s \in Sessions |-> NoRecord]
    /\ entity = [s \in Sessions |-> NoEntity]
    /\ found = [s \in Sessions |-> FALSE]
    /\ reply = [s \in Sessions |-> "NONE"]
    /\ overlapped = {}

Init == StoreInit /\ ServiceInit

-----------------------------------------------------------------------------
(* Helpers *)

Recorded(k) == transfers[k] # NoRecord

Serving(s) == pc[s] \in Statements

\* Fault: the source is locked first.
FirstIdOfRequest(r) == r.source

\* Accounts are locked in UUID order, whatever the direction of the transfer.
FirstId(r) == IF r.source < r.destination THEN r.source ELSE r.destination
SecondId(r) == IF FirstId(r) = r.source THEN r.destination ELSE r.source

\* The ids that serving k makes two requests carry at once.
Overlap(k) == IF \E s \in Sessions : Serving(s) /\ key[s] = k THEN {k} ELSE {}

GoTo(s, statement) == pc' = [pc EXCEPT ![s] = statement]

\* The transaction ends, by commit or rollback: its locks are released, its
\* persistence context is dropped and the client is answered.
Finish(s, answer) ==
    /\ ReleaseRows(s)
    /\ GoTo(s, "done")
    /\ reply' = [reply EXCEPT ![s] = answer]
    /\ draft' = [draft EXCEPT ![s] = NoRecord]
    /\ entity' = [entity EXCEPT ![s] = NoEntity]
    /\ found' = [found EXCEPT ![s] = FALSE]
    /\ UNCHANGED <<key, overlapped>>

\* A transaction that wrote nothing, or whose writes are undone.
Rollback(s, answer) ==
    /\ Finish(s, answer)
    /\ UNCHANGED <<balance, ledgerOf, moved, transfers>>

\* A statement that only reads and moves on.
Proceed(s, statement) ==
    /\ GoTo(s, statement)
    /\ UNCHANGED <<storeVars, transfers, key, draft, entity, found, reply, overlapped>>

-----------------------------------------------------------------------------
(* transfer *)

\* POST /internal/v1/transfers reaches a session.  transfer refuses equal
\* accounts and amounts that are not positive before it reads anything.
ReceiveTransfer(s, r) ==
    /\ pc[s] = "idle"
    /\ key' = [key EXCEPT ![s] = r.id]
    /\ \/ /\ r.source # r.destination /\ r.amount > 0
          /\ GoTo(s, "existsById")
          /\ draft' = [draft EXCEPT ![s] =
                          [source |-> r.source, destination |-> r.destination,
                           amount |-> r.amount, reversalOf |-> NoId]]
          /\ overlapped' = overlapped \cup Overlap(r.id)
          /\ UNCHANGED reply
       \/ /\ r.source = r.destination \/ r.amount <= 0
          /\ GoTo(s, "done")
          /\ reply' = [reply EXCEPT ![s] = "INVALID"]
          /\ UNCHANGED <<draft, overlapped>>
    /\ UNCHANGED <<storeVars, transfers, entity, found>>

\* Fault: the key is not looked up.
ExistsByIdForgotten(s) == pc[s] = "existsById" /\ Proceed(s, "lockFirst")

\* transfers.existsById(transactionId), a plain read: nothing is locked yet,
\* and the stored accounts and amount are not compared with the request's.
ExistsById(s) ==
    /\ pc[s] = "existsById"
    /\ \/ Recorded(key[s]) /\ Rollback(s, "COMPLETED")
       \/ ~Recorded(key[s]) /\ Proceed(s, "lockFirst")

-----------------------------------------------------------------------------
(* reverse *)

\* POST /internal/v1/transfers/{of}/reversals reaches a session.
ReceiveReversal(s, id, of) ==
    /\ pc[s] = "idle"
    /\ GoTo(s, "findReversal")
    /\ key' = [key EXCEPT ![s] = id]
    /\ draft' = [draft EXCEPT ![s] = [NoRecord EXCEPT !.reversalOf = of]]
    /\ overlapped' = overlapped \cup Overlap(id)
    /\ UNCHANGED <<storeVars, transfers, entity, found, reply>>

\* transfers.findById(reversalId)
FindReversal(s) ==
    /\ pc[s] = "findReversal"
    /\ \/ /\ Recorded(key[s])
          /\ transfers[key[s]].reversalOf = draft[s].reversalOf
          /\ Rollback(s, "COMPLETED")
       \/ /\ Recorded(key[s])
          /\ transfers[key[s]].reversalOf # draft[s].reversalOf
          /\ Rollback(s, "CONFLICT")
       \/ ~Recorded(key[s]) /\ Proceed(s, "findPrior")

ReversalsOf(of) == {k \in KeyIds : Recorded(k) /\ transfers[k].reversalOf = of}

\* transfers.findByReversalOf(originalId)
FindPrior(s) ==
    /\ pc[s] = "findPrior"
    /\ \/ ReversalsOf(draft[s].reversalOf) # {} /\ Rollback(s, "COMPLETED")
       \/ ReversalsOf(draft[s].reversalOf) = {} /\ Proceed(s, "findOriginal")

\* transfers.findById(originalId); the reversal swaps its two accounts.
FindOriginal(s) ==
    LET of == draft[s].reversalOf
        original == transfers[of]
    IN /\ pc[s] = "findOriginal"
       /\ \/ ~Recorded(of) /\ Rollback(s, "NOT_FOUND")
          \/ /\ Recorded(of) /\ original.reversalOf # NoId
             /\ Rollback(s, "INVALID")
          \/ /\ Recorded(of) /\ original.reversalOf = NoId
             /\ GoTo(s, "lockFirst")
             /\ draft' = [draft EXCEPT ![s] =
                             [source |-> original.destination,
                              destination |-> original.source,
                              amount |-> original.amount, reversalOf |-> of]]
             /\ UNCHANGED <<storeVars, transfers, key, entity, found, reply, overlapped>>

-----------------------------------------------------------------------------
(* The common end of transfer and reverseLocked *)

\* accounts.findByIdForUpdate: waits for the row, then loads its latest
\* committed balance.
LockAndLoad(s, a) ==
    /\ LockRow(s, a)
    /\ entity' = [entity EXCEPT ![s][a] = balance[a]]
    /\ UNCHANGED <<balance, ledgerOf, moved, transfers, key, draft, found, reply, overlapped>>

LockFirst(s) ==
    LET a == FirstId(draft[s])
    IN /\ pc[s] = "lockFirst"
       /\ \/ a \in Accounts /\ LockAndLoad(s, a) /\ GoTo(s, "lockSecond")
          \/ a \notin Accounts /\ Rollback(s, "NOT_FOUND")

LockSecond(s) ==
    LET a == SecondId(draft[s])
    IN /\ pc[s] = "lockSecond"
       /\ \/ a \in Accounts /\ LockAndLoad(s, a) /\ GoTo(s, "apply")
          \/ a \notin Accounts /\ Rollback(s, "NOT_FOUND")

\* Fault: debit without the comparison of the balance.
ApplyUnchecked(s) ==
    LET r == draft[s]
    IN /\ pc[s] = "apply"
       /\ entity' = [entity EXCEPT ![s][r.source] = @ - r.amount,
                                   ![s][r.destination] = @ + r.amount]
       /\ found' = [found EXCEPT ![s] = Recorded(key[s])]
       /\ GoTo(s, "commit")
       /\ UNCHANGED <<storeVars, transfers, key, draft, reply, overlapped>>

\* source.debit, destination.credit, and save: the id of a TransferRecord is
\* assigned and it has no version, so save is a merge, whose SELECT decides
\* between UPDATE and INSERT at the flush.
Apply(s) ==
    LET r == draft[s]
    IN /\ pc[s] = "apply"
       /\ \/ entity[s][r.source] < r.amount /\ Rollback(s, "INSUFFICIENT_FUNDS")
          \/ /\ entity[s][r.source] >= r.amount
             /\ entity' = [entity EXCEPT ![s][r.source] = @ - r.amount,
                                         ![s][r.destination] = @ + r.amount]
             /\ found' = [found EXCEPT ![s] = Recorded(key[s])]
             /\ GoTo(s, "commit")
             /\ UNCHANGED <<storeVars, transfers, key, draft, reply, overlapped>>

\* Fault: no unique index on reversal_of.
ViolatesPrimaryKey(s) == ~found[s] /\ Recorded(key[s])

\* The INSERT meets a primary key committed since the merge's SELECT, or the
\* record meets the unique index on reversal_of (V5).
ViolatesUnique(s) ==
    \/ ~found[s] /\ Recorded(key[s])
    \/ /\ draft[s].reversalOf # NoId
       /\ ReversalsOf(draft[s].reversalOf) \ {key[s]} # {}

\* Fault: the record is not saved with the movement.
CommitWithoutRecord(s) ==
    LET r == draft[s]
    IN /\ pc[s] = "commit"
       /\ WriteBalances({r.source, r.destination}, entity[s])
       /\ PostEntries(key[s], r.source, r.destination, r.amount)
       /\ Finish(s, "COMPLETED")
       /\ UNCHANGED transfers

\* The flush and the COMMIT.
Commit(s) ==
    LET r == draft[s]
    IN /\ pc[s] = "commit"
       /\ \/ ViolatesUnique(s) /\ Rollback(s, "ERROR")
          \/ /\ ~ViolatesUnique(s)
             /\ WriteBalances({r.source, r.destination}, entity[s])
             /\ PostEntries(key[s], r.source, r.destination, r.amount)
             /\ transfers' = [transfers EXCEPT ![key[s]] = r]
             /\ Finish(s, "COMPLETED")

\* The process or its connection dies, or a timeout ends the transaction:
\* PostgreSQL rolls it back.
Crash(s) == Serving(s) /\ Rollback(s, "ERROR")

\* The answer leaves and the session is free for the next request.
Return(s) ==
    /\ pc[s] = "done"
    /\ GoTo(s, "idle")
    /\ key' = [key EXCEPT ![s] = NoId]
    /\ reply' = [reply EXCEPT ![s] = "NONE"]
    /\ UNCHANGED <<storeVars, transfers, draft, entity, found, overlapped>>

-----------------------------------------------------------------------------
Receive(s) ==
    \/ \E r \in Transfers : ReceiveTransfer(s, r)
    \/ \E id \in ReversalIds, of \in KeyIds : ReceiveReversal(s, id, of)

\* The statements of the transaction, as the server executes them.
Step(s) ==
    \/ ExistsById(s) \/ FindReversal(s) \/ FindPrior(s) \/ FindOriginal(s)
    \/ LockFirst(s) \/ LockSecond(s) \/ Apply(s) \/ Commit(s)

Next == \E s \in Sessions : Receive(s) \/ Step(s) \/ Crash(s) \/ Return(s)

Spec == Init /\ [][Next]_vars

\* A served request keeps executing; PostgreSQL grants a row lock to its
\* waiters in turn, so a waiter is not overtaken forever.
FairSpec ==
    Spec /\ \A s \in Sessions : WF_vars(Step(s)) /\ SF_vars(LockFirst(s))
                                /\ SF_vars(LockSecond(s))

-----------------------------------------------------------------------------
(* Properties *)

\* A session that has loaded an account still holds its row, and what it
\* loaded is the committed balance until it applies the movement: no debit or
\* credit is computed from a balance another transaction has replaced.
\* findByIdForUpdate, AccountService.java:107-113 and 139-149.
LoadedRowsAreCurrent ==
    \A s \in Sessions :
        /\ pc[s] = "lockSecond" =>
              /\ rowLock[FirstId(draft[s])] = s
              /\ entity[s][FirstId(draft[s])] = balance[FirstId(draft[s])]
        /\ pc[s] = "apply" =>
              \A a \in {draft[s].source, draft[s].destination} :
                  rowLock[a] = s /\ entity[s][a] = balance[a]

\* The record, the ledger entries and the balances of a key are committed or
\* lost together, whatever crashes: money has moved under a key exactly when
\* its TransferRecord exists.  AccountService.java:112-116 and 148-157.
RecordedIffMoved == \A k \in KeyIds : Recorded(k) <=> moved[k] > 0

\* A key that no two requests carried at the same time moves its amount at
\* most once, over any number of retries.  AccountService.java:101-103, 121-128.
SerialKeysMoveOnce ==
    \A k \in KeyIds \ overlapped : moved[k] = transfers[k].amount

\* Whatever ids reversals of one transfer race under, at most one is recorded; it
\* sends the same amount back between the same accounts, and moves it once.  An
\* id that two requests carried at once is left out of the last two: the second
\* request stores its payload over the first one's and moves the money again, an
\* UPDATE that the unique index lets pass.  AccountService.java:121-137, V5:8-9.
OneMirroredReversal ==
    \A of \in KeyIds :
        /\ \A k, l \in ReversalsOf(of) : k = l
        /\ of \notin overlapped => \A k \in ReversalsOf(of) :
              /\ transfers[k].amount = transfers[of].amount
              /\ transfers[k].source = transfers[of].destination
              /\ transfers[k].destination = transfers[of].source
              /\ k \notin overlapped => moved[k] = moved[of]

\* Every served request is answered: the ordered locks never leave two
\* sessions waiting for each other.  AccountService.java:105-108, 137-140.
EveryRequestIsAnswered ==
    \A s \in Sessions : Serving(s) ~> pc[s] = "done"

=============================================================================
