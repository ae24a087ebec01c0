------------------------ MODULE MCTransactionService ------------------------
(* Small instances of TransactionService for TLC. *)
EXTENDS TransactionService, TLC

CONSTANTS s1, s2, h1, h2, t1, t2,
    Workloads    \* sets of requests, one of which the clients send

MCAccounts == {1, 2}
\* The first account can pay 2 once, or 1 twice.
MCOpening == (1 :> 2) @@ (2 :> 0)
MCJournals == KeyIds

Pix(id, from, to, n, text) ==
    [id |-> id, source |-> from, destination |-> to, amount |-> n, description |-> text]

\* One key with three payloads.
MCOneKey == {Pix(t1, 1, 2, 1, "rent"), Pix(t1, 1, 2, 1, "food"), Pix(t1, 1, 2, 2, "rent")}
\* Two keys that can pay each other's refusals away.
MCTwoKeys == {Pix(t1, 1, 2, 2, "rent"), Pix(t2, 2, 1, 1, "rent")}
\* One key, one payload.
MCSame == {Pix(t1, 1, 2, 1, "rent")}
MCWorkloads == {MCOneKey, MCTwoKeys}
MCRepeated == {MCSame}
MCPosts == UNION Workloads
MCCalls == {CallOf(r) : r \in MCPosts}

VARIABLE workload

ClientInit == CoordinatorInit /\ workload \in Workloads

ClientNext ==
    /\ CoordinatorNext
    /\ \A h \in Handlers : post'[h] \in workload \cup {NoPost}
    /\ UNCHANGED workload

ClientSpec == ClientInit /\ [][ClientNext]_<<allVars, workload>>

Symmetry == Permutations(Sessions) \cup Permutations(Handlers)
=============================================================================
