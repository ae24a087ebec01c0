------------------------ MODULE MCCollectorRegistry ------------------------
(* A small registry: two required collectors in a row, an optional one and   *)
(* the contract validation.                                                  *)
EXTENDS CollectorRegistry, TLC

MCRegistry ==
    [ids |-> {"preflight", "assessment", "node-evidence", "contract-validation"},
     deps |-> "preflight" :> {} @@ "assessment" :> {"preflight"}
              @@ "node-evidence" :> {"assessment"} @@ "contract-validation" :> {"assessment"},
     required |-> {"preflight", "assessment", "contract-validation"},
     available |-> {"preflight", "assessment", "node-evidence", "contract-validation"}]
MCOrder == <<"assessment", "node-evidence", "contract-validation">>
MCExcludes == {{}, {"node-evidence"}}
=============================================================================
