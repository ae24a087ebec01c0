----------------------------- MODULE MCBankCore -----------------------------
(* Small instances of BankCore for TLC. *)
EXTENDS BankCore, TLC

CONSTANTS s1, s2, c1, t1, p1, p2

MCAccounts == {1, 2}
MCOpening == (1 :> 1) @@ (2 :> 1)
MCJournals == TransferIds \cup ReversalIds \cup PaymentIds

Pay(id, account, type, n) ==
    [id |-> id, card |-> <<account, type>>, type |-> type, amount |-> n,
     flaws |-> {}, text |-> 0]

\* A debit purchase that account 1 can pay only after the transfer to it, and one
\* with its credit card.
MCPayments == {Pay(p1, 1, "DEBIT", 2), Pay(p2, 1, "CREDIT", 1)}

\* One key that pays in either direction, for the order of the locks.
MCOpposite ==
    {[id |-> t1, source |-> 2, destination |-> 1, amount |-> 1],
     [id |-> t1, source |-> 1, destination |-> 2, amount |-> 1]}

Symmetry == Permutations(TransferSessions)
=============================================================================
