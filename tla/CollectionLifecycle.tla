------------------------ MODULE CollectionLifecycle ------------------------
(***************************************************************************)
(* What the dashboard promises about one collection after the other: at    *)
(* most one runs, the first thing that stops it decides how it ends, and   *)
(* a collection nothing stopped ends COMPLETED or FAILED.                  *)
(***************************************************************************)

VARIABLES phase,      \* IDLE, RUNNING or how the last collection ended
          stopKind    \* what stopped the current collection, "" for nothing

lifecycle == <<phase, stopKind>>

StopKinds == {"CANCELLED", "TIMED_OUT"}

Init == phase = "IDLE" /\ stopKind = ""

Begin == /\ phase # "RUNNING"
         /\ phase' = "RUNNING"
         /\ stopKind' = ""

Stop(kind) == /\ phase = "RUNNING"
              /\ stopKind = ""
              /\ stopKind' = kind
              /\ UNCHANGED phase

End(outcome) == /\ phase = "RUNNING"
                /\ phase' = IF stopKind = "" THEN outcome ELSE stopKind
                /\ UNCHANGED stopKind

Next == \/ Begin
        \/ \E kind \in StopKinds: Stop(kind)
        \/ \E outcome \in {"COMPLETED", "FAILED"}: End(outcome)

Spec == Init /\ [][Next]_lifecycle
=============================================================================
