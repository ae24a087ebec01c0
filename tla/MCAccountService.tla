-------------------------- MODULE MCAccountService --------------------------
(* Small instances of AccountService for TLC. *)
EXTENDS AccountService, TLC

CONSTANTS s1, s2, t1, r1, r2

\* Two accounts hold money; a request may also name 3, which does not exist.
MCAccounts == {1, 2}
MCOpening == (1 :> 2) @@ (2 :> 1)
MCJournals == KeyIds

Payment(id, from, to, n) ==
    [id |-> id, source |-> from, destination |-> to, amount |-> n]

\* One key with four payloads: paid, equal accounts, refused for the balance,
\* and to an account that does not exist.  Its two reversals take the rows in
\* the opposite direction.
MCTransfers ==
    {Payment(t1, 1, 2, 1), Payment(t1, 1, 1, 1), Payment(t1, 2, 1, 2), Payment(t1, 2, 3, 2)}

=============================================================================
