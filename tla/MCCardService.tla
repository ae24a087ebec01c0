---------------------------- MODULE MCCardService ----------------------------
(* Small instances of CardService for TLC. *)
EXTENDS CardService, TLC

CONSTANTS s1, s2, p1, p2

\* One cardholder with money for one debit purchase of 2, not of 2 and 1.
MCAccounts == {1}
MCOpening == 1 :> 2
MCJournals == PaymentIds

Pay(id, cardType, type, n, flaws, text) ==
    [id |-> id, card |-> <<1, cardType>>, type |-> type, amount |-> n,
     flaws |-> flaws, text |-> text]

\* p1 is retried with the same payload and with another spelling; p2 competes
\* for the same funds and the same limit.
MCPayments ==
    {Pay(p1, "DEBIT", "DEBIT", 2, {}, 0), Pay(p1, "DEBIT", "DEBIT", 2, {}, 1),
     Pay(p1, "CREDIT", "CREDIT", 2, {}, 0),
     Pay(p2, "DEBIT", "DEBIT", 1, {}, 0), Pay(p2, "CREDIT", "CREDIT", 1, {}, 0)}

\* Every reason to decline, under the id of a payment that may succeed.
MCFlawed ==
    {Pay(p1, "DEBIT", "DEBIT", 2, f, 0) :
        f \in {{"currency", "installments"}, {"installments"}, {"pan"},
               {"holder", "cvv"}, {"expiry"}, {"cvv"}}}
    \cup {Pay(p1, "CREDIT", "DEBIT", 2, {}, 0),
          Pay(p1, "CREDIT", "CREDIT", 2, {"installments"}, 0)}

\* All of them, for good and flawed requests under one id.
MCRequests == MCPayments \cup MCFlawed

Symmetry == Permutations(Sessions)
=============================================================================
