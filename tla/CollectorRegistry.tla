------------------------- MODULE CollectorRegistry -------------------------
(***************************************************************************)
(* One collection of the command line: collector-state.json as             *)
(* collector_registry.py keeps it (init, mark, should-run), and the        *)
(* sequence of bin/eks-assessment.sh that drives it through a first run,   *)
(* signals, time-outs, crashes and resumptions.                            *)
(***************************************************************************)
EXTENDS CollectorPlan, Sequences

CONSTANTS Registry,      \* ids, deps, required, available: see CollectorPlan
          Order,         \* the collectors after the preflight, as the script runs them
          Recheck,       \* the collector repeated on the final metadata
          Excludes,      \* what a session may exclude
          MaxSessions,   \* bound: the first run and its resumptions
          Signals        \* bound: signals the operator sends

ASSUME OrderAssumption ==
    /\ WellFormed(Registry) /\ MaxSessions \in Nat /\ Signals \in Nat
    /\ Order \in Seq(Registry.ids \ {"preflight"}) /\ Recheck \in Registry.ids

VARIABLES file,      \* collector-state.json: the plan and an entry per collector
          status,    \* metadata.json: status
          pc,        \* where the script is
          at,        \* index in Order
          cancelled, \* COLLECTION_CANCELLED
          timedOut,  \* COLLECTION_TIMED_OUT
          retry,     \* --retry-failed
          sessions,  \* sessions so far
          signals    \* signals so far

vars == <<file, status, pc, at, cancelled, timedOut, retry, sessions, signals>>
script == <<pc, at, cancelled, timedOut, retry>>

Terminal == {"PASS", "FAIL", "SKIPPED", "CANCELLED", "TIMED_OUT"}
Fresh == [state |-> "PENDING", attempts |-> 0]
Current == Order[at]
State(c) == file.entry[c].state

InitStateKeepingRunning(plan, resume, retryFailed) ==
    [plan |-> plan,
     entry |-> [c \in plan |-> IF resume /\ c \in DOMAIN file.entry THEN file.entry[c] ELSE Fresh]]

(* init_state: without --resume, or for a collector new to the plan, PENDING; *)
(* the preflight and whatever was interrupted start over, failures on demand. *)
InitState(plan, resume, retryFailed) ==
    LET old(c) == IF resume /\ c \in DOMAIN file.entry THEN file.entry[c] ELSE Fresh
        restarts(c) == \/ c = "preflight"
                       \/ old(c).state \in {"RUNNING", "CANCELLED", "TIMED_OUT"}
                       \/ retryFailed /\ old(c).state = "FAIL"
    IN  [plan |-> plan,
         entry |-> [c \in plan |->
                      IF restarts(c) THEN [old(c) EXCEPT !.state = "PENDING"] ELSE old(c)]]

(* update_state: a collector outside the plan raises; RUNNING is an attempt. *)
UpdateState(c, state) ==
    /\ c \in file.plan
    /\ file' = [file EXCEPT !.entry[c].state = state,
                            !.entry[c].attempts = IF state = "RUNNING" THEN @ + 1 ELSE @]

ShouldRunUnlessSkipped(c) == State(c) # "SKIPPED" /\ (State(c) = "FAIL" => retry)

ShouldRun(c) ==
    /\ State(c) \notin {"PASS", "SKIPPED"}
    /\ State(c) = "FAIL" => retry

Init ==
    /\ file = [plan |-> {}, entry |-> [c \in {} |-> Fresh]]
    /\ status = "absent" /\ pc = "idle" /\ at = 1
    /\ cancelled = FALSE /\ timedOut = FALSE /\ retry = FALSE
    /\ sessions = 0 /\ signals = 0

(* collect, or collect --resume of a collection that is not COMPLETED: the   *)
(* metadata says RUNNING before the plan is fixed.                           *)
StartSession(resume, retryFailed) ==
    /\ pc = "idle" /\ sessions < MaxSessions
    /\ IF resume THEN status \notin {"absent", "COMPLETED"} ELSE status = "absent"
    /\ status' = "RUNNING" /\ pc' = "init" /\ at' = 1
    /\ cancelled' = FALSE /\ timedOut' = FALSE /\ retry' = retryFailed
    /\ sessions' = sessions + 1
    /\ UNCHANGED <<file, signals>>

(* collector_init: every session but the first is a resumption, with a state *)
(* file or without one, if the script died before it was written.            *)
InitPlan(exclude) ==
    /\ pc = "init"
    /\ BuildPlan(Registry, {}, exclude).ok
    /\ file' = InitState(BuildPlan(Registry, {}, exclude).plan, sessions > 1, retry)
    /\ pc' = "preflight"
    /\ UNCHANGED <<status, at, cancelled, timedOut, retry, sessions, signals>>

PreflightPassed ==
    /\ pc = "preflight"
    /\ UpdateState("preflight", "PASS")
    /\ pc' = "next"
    /\ UNCHANGED <<status, at, cancelled, timedOut, retry, sessions, signals>>

(* The next collector of the script: the first is tried whatever happened,   *)
(* the others only when nothing stopped the collection.                      *)
Due == /\ Current \in file.plan
       /\ at > 1 => ~ cancelled /\ ~ timedOut
       /\ ShouldRun(Current)                \* otherwise its exit code is reused

Advance ==
    IF at < Len(Order) THEN pc' = "next" /\ at' = at + 1 ELSE pc' = "conclude" /\ UNCHANGED at

SkipCollector ==
    /\ pc = "next" /\ ~ Due
    /\ Advance
    /\ UNCHANGED <<file, status, cancelled, timedOut, retry, sessions, signals>>

MarkRunning ==
    /\ pc = "next" /\ Due
    /\ UpdateState(Current, "RUNNING")
    /\ pc' = "launch"
    /\ UNCHANGED <<status, at, cancelled, timedOut, retry, sessions, signals>>

(* run_bounded looks at the time budget, not at COLLECTION_CANCELLED. *)
Launch ==
    /\ pc = "launch"
    /\ \/ pc' = "running" /\ UNCHANGED timedOut
       \/ pc' = "ran" /\ timedOut' = TRUE
    /\ UNCHANGED <<file, status, at, cancelled, retry, sessions, signals>>

ComponentEnds ==
    /\ pc = "running"
    /\ pc' = "ran"
    /\ timedOut' \in (IF cancelled THEN {timedOut} ELSE {timedOut, TRUE})
    /\ UNCHANGED <<file, status, at, cancelled, retry, sessions, signals>>

(* collector_finish *)
CollectorFinish ==
    /\ pc = "ran"
    /\ \E outcome \in (IF cancelled THEN {"CANCELLED"}
                       ELSE IF timedOut THEN {"TIMED_OUT"} ELSE {"PASS", "FAIL"}):
          UpdateState(Current, outcome)
    /\ Advance
    /\ UNCHANGED <<status, cancelled, timedOut, retry, sessions, signals>>

VerdictOfFlags == IF cancelled THEN "CANCELLED" ELSE IF timedOut THEN "TIMED_OUT" ELSE "COMPLETED"

Verdict ==
    IF cancelled THEN "CANCELLED" ELSE IF timedOut THEN "TIMED_OUT"
    ELSE IF \A c \in file.plan \cap Registry.required: State(c) = "PASS"
         THEN "COMPLETED" ELSE "FAILED"

Conclude ==
    /\ pc = "conclude"
    /\ status' = Verdict
    /\ pc' = IF Verdict = "COMPLETED" /\ Recheck \in file.plan THEN "recheck" ELSE "idle"
    /\ UNCHANGED <<file, at, cancelled, timedOut, retry, sessions, signals>>

(* The contracts are validated again on the final metadata. *)
RecheckContracts ==
    /\ pc = "recheck"
    /\ \/ UpdateState(Recheck, "PASS") /\ pc' = "idle"
       \/ UpdateState(Recheck, "FAIL") /\ pc' = "demote"
    /\ UNCHANGED <<status, at, cancelled, timedOut, retry, sessions, signals>>

Demote ==
    /\ pc = "demote"
    /\ status' = "FAILED" /\ pc' = "idle"
    /\ UNCHANGED <<file, at, cancelled, timedOut, retry, sessions, signals>>

(* cancel_on_signal: terminate_active reaches a component that is running. *)
Signal ==
    /\ pc # "idle" /\ signals < Signals
    /\ cancelled' = TRUE
    /\ signals' = signals + 1
    /\ UNCHANGED <<file, status, pc, at, timedOut, retry, sessions>>

(* The script dies (SIGKILL, the host): both files stay as they are. *)
Crash ==
    /\ pc # "idle"
    /\ pc' = "idle"
    /\ UNCHANGED <<file, status, at, cancelled, timedOut, retry, sessions, signals>>

Next ==
    \/ \E resume, retryFailed \in BOOLEAN: StartSession(resume, retryFailed)
    \/ \E exclude \in Excludes: InitPlan(exclude)
    \/ PreflightPassed \/ SkipCollector \/ MarkRunning \/ Launch \/ ComponentEnds
    \/ CollectorFinish \/ Conclude \/ RecheckContracts \/ Demote \/ Signal \/ Crash

Spec == Init /\ [][Next]_vars
----------------------------------------------------------------------------
(* docs/headless-cli.md: a resumption repeats no collector that passed and   *)
(* keeps the attempts. Whatever is resumed, killed or retried, a collector   *)
(* that stays in the plan loses neither its PASS (the preflight and the      *)
(* repeated contract check apart) nor its count of attempts.                 *)
ResumeKeepsEvidence ==
    [][\A c \in DOMAIN file.entry \cap DOMAIN file'.entry:
          /\ file'.entry[c].attempts >= file.entry[c].attempts
          /\ State(c) = "PASS" /\ c \notin {"preflight", Recheck} => file'.entry[c].state = "PASS"]_vars

(* COMPLETED is written only for a collection whose planned required         *)
(* collectors all passed, over all its sessions; the contract check may be   *)
(* found failing afterwards, and a crash may keep COMPLETED then.            *)
CompletedIsWhole ==
    status = "COMPLETED" =>
        \A c \in (file.plan \cap Registry.required) \ {Recheck}: State(c) = "PASS"

(* No collector is left RUNNING by a session that ended by itself: a script  *)
(* that got to its verdict has an outcome for everything it started.         *)
EndedSessionsLeaveNothingRunning ==
    pc = "conclude" \/ status \notin {"absent", "RUNNING"} =>
        \A c \in file.plan: State(c) # "RUNNING"
=============================================================================
