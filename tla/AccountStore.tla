---------------------------- MODULE AccountStore ----------------------------
(***************************************************************************)
(* The part of account-service's PostgreSQL schema that every money        *)
(* operation shares: the accounts rows with their row locks and the        *)
(* double-entry ledger (V1__create_accounts.sql, V3__create_double_entry_  *)
(* ledger.sql, Account.java, LedgerEntry.java, Repositories.java).         *)
(*                                                                         *)
(* The ledger is append-only and the program reads it through one query,   *)
(* the sum of an account's entries (countDivergentAccounts), so the table  *)
(* is kept as running sums: what the entries of an account add up to, and  *)
(* how much money the entries of a journal have moved.                     *)
(***************************************************************************)
EXTENDS Integers

CONSTANTS
    Accounts,        \* the existing accounts; an id is the rank of its UUID, from 1
    Journals,        \* journal ids: transfers, reversals and card payments
    Sessions,        \* database sessions, one for each request being served
    NoSession,       \* the holder of a row lock that nobody holds
    OpeningBalance   \* the journaled balance each account starts with

ASSUME StoreAssumption ==
    /\ Accounts \subseteq Nat \ {0}
    /\ NoSession \notin Sessions
    /\ OpeningBalance \in [Accounts -> Nat]

\* The null account_id of the SYSTEM_OFFSET and CARD_ACQUIRER_CREDIT entries.
System == 0

VARIABLES
    balance,     \* accounts.balance, committed
    ledgerOf,    \* the sum of the committed ledger entries of each account
    moved,       \* the money the committed entries of each journal moved
    rowLock      \* the session holding the FOR UPDATE lock of an accounts row

storeVars == <<balance, ledgerOf, moved, rowLock>>

StoreTypeOK ==
    /\ balance \in [Accounts -> Nat]
    /\ ledgerOf \in [Accounts \cup {System} -> Int]
    /\ moved \in [Journals -> Nat]
    /\ rowLock \in [Accounts -> Sessions \cup {NoSession}]

StoreInit ==
    /\ balance = OpeningBalance
    /\ ledgerOf = [a \in Accounts \cup {System} |->
                      IF a = System THEN 0 ELSE OpeningBalance[a]]
    /\ moved = [j \in Journals |-> 0]
    /\ rowLock = [a \in Accounts |-> NoSession]

-----------------------------------------------------------------------------
(* Row locks and writes, for the transactions of the services *)

\* Fault: findById without FOR UPDATE, which waits for nobody.
LockRowWithoutWaiting(s, a) == rowLock' = [rowLock EXCEPT ![a] = s]

\* findByIdForUpdate: SELECT ... FOR UPDATE waits until the row is free.
LockRow(s, a) ==
    /\ rowLock[a] = NoSession
    /\ rowLock' = [rowLock EXCEPT ![a] = s]

\* The end of a transaction gives its row locks back.
ReleaseRows(s) ==
    rowLock' = [a \in Accounts |->
                   IF rowLock[a] = s THEN NoSession ELSE rowLock[a]]

\* The two ledger entries of a journal: -amount on one account and +amount on
\* the other.  System stands for a null account_id.
PostEntries(journal, from, to, amount) ==
    /\ ledgerOf' = [ledgerOf EXCEPT ![from] = @ - amount, ![to] = @ + amount]
    /\ moved' = [moved EXCEPT ![journal] = @ + amount]

\* The UPDATE of the dirty accounts entities at the flush.  entity holds what
\* the session computed from the rows it loaded.
WriteBalances(rows, entity) ==
    balance' = [a \in Accounts |-> IF a \in rows THEN entity[a] ELSE balance[a]]

-----------------------------------------------------------------------------
\* No account diverges from its ledger: the count that LedgerMetrics exports
\* (countDivergentAccounts) is 0 in every committed state.
NoDivergentAccount == \A a \in Accounts : balance[a] = ledgerOf[a]

=============================================================================
