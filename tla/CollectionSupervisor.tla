------------------------ MODULE CollectionSupervisor ------------------------
(***************************************************************************)
(* assessment_process_supervisor.py: the object that owns one collection,  *)
(* its time budget and the process tree of its current component.  Each    *)
(* operator below is one stretch of code under the supervisor's lock, or   *)
(* one call made outside it; DashboardCollection puts them in the order    *)
(* in which request threads, cancellations and the signal handler run.     *)
(***************************************************************************)
EXTENDS Naturals, FiniteSets, FiniteSetsExt

CONSTANTS Components,   \* ids of the planned components
          Weight,       \* componentWeights
          None

\* A plan lists its components, and each weighs something.
ASSUME WeightAssumption ==
    /\ IsFiniteSet(Components)
    /\ Weight \in [Components -> Nat \ {0}]

VARIABLES sup,          \* CollectionSupervisor._state (and _stop: stopKind # "")
          registered,   \* CollectionSupervisor._process
          alive,        \* processes the operating system is running
          cutShort,     \* history: processes ended by terminate_process_tree
          overdue       \* the collection's deadline has passed

supervisorVars == <<sup, registered, alive, cutShort, overdue>>

Stopped == sup.stopKind # ""

(* Exit code of a run that a stop replaced: 124 for a time-out, else 130. *)
StoppedResult == IF sup.stopKind = "TIMED_OUT" THEN 124 ELSE 130

(* round(completed_weight * 100 / total_weight), never more than 99. *)
Progress(completed) ==
    LET total == MapThenSumSet(LAMBDA c: Weight[c], Components)
        done == MapThenSumSet(LAMBDA c: Weight[c], completed \cap Components)
        percent == (200 * done + total) \div (2 * total)
    IN  IF percent > 99 THEN 99 ELSE percent

SupervisorInit ==
    /\ sup = [active |-> FALSE, status |-> "IDLE", collection |-> 0, stopKind |-> "",
              component |-> "", completed |-> {}, progress |-> 0]
    /\ registered = None
    /\ alive = {}
    /\ cutShort = {}
    /\ overdue = FALSE

(* start: raises when a collection is active, clears the stop and arms the deadline. *)
StartSupervisor(collection) ==
    /\ ~ sup.active
    /\ sup' = [active |-> TRUE, status |-> "RUNNING", collection |-> collection,
               stopKind |-> "", component |-> "preparing", completed |-> {}, progress |-> 0]
    /\ registered' = None
    /\ overdue' = FALSE
    /\ UNCHANGED <<alive, cutShort>>

MarkStopAgain(kind) == sup' = [sup EXCEPT !.stopKind = kind, !.status = kind]

(* _mark_stop, for the first stop only: every caller looks at _stop first. *)
MarkStop(kind) ==
    sup' = IF Stopped THEN sup ELSE [sup EXCEPT !.stopKind = kind, !.status = kind]

(* cancel, under the lock; the caller terminates the process it read afterwards. *)
CancelUnderLock ==
    /\ IF sup.active THEN MarkStop("CANCELLED") ELSE UNCHANGED sup
    /\ UNCHANGED <<registered, alive, cutShort, overdue>>

CancelTarget == IF sup.active THEN registered ELSE None

(* terminate_process_tree: TERM, a grace period, KILL. *)
Terminate(process) ==
    /\ alive' = alive \ {process}
    /\ cutShort' = cutShort \cup (alive \cap {process})
    /\ UNCHANGED <<sup, registered, overdue>>

(* run, first block under the lock: a stopped or overdue collection starts nothing. *)
RunRefused ==
    /\ Stopped \/ overdue
    /\ MarkStop("TIMED_OUT")
    /\ UNCHANGED <<registered, alive, cutShort, overdue>>

RunAdmitted(component) ==
    /\ ~ Stopped /\ ~ overdue
    /\ sup' = [sup EXCEPT !.component = component]
    /\ UNCHANGED <<registered, alive, cutShort, overdue>>

(* subprocess.Popen, outside the lock. *)
Spawn(process) ==
    /\ alive' = alive \cup {process}
    /\ UNCHANGED <<sup, registered, cutShort, overdue>>

(* run, second block under the lock: publish the process, then look at _stop. *)
Register(process) ==
    /\ registered' = process
    /\ UNCHANGED <<sup, alive, cutShort, overdue>>

(* communicate gave up waiting: the component exceeded its time-out. *)
ComponentTimedOut ==
    /\ MarkStop("TIMED_OUT")
    /\ UNCHANGED <<registered, alive, cutShort, overdue>>

(* run, the finally block under the lock. *)
Complete(component, process) ==
    /\ registered' = IF registered = process THEN None ELSE registered
    /\ LET completed == sup.completed \cup {component}
       IN  sup' = [sup EXCEPT !.completed = completed, !.progress = Progress(completed)]
    /\ UNCHANGED <<alive, cutShort, overdue>>

FinishAsStopped(status) ==
    /\ sup' = IF sup.active THEN [sup EXCEPT !.status = sup.stopKind, !.active = FALSE] ELSE sup
    /\ UNCHANGED <<registered, alive, cutShort, overdue>>

(* finish: the stop, when there was one, decides the final status. *)
FinishSupervisor(status) ==
    /\ sup' = IF sup.active
              THEN LET inferred == IF Stopped THEN sup.stopKind ELSE status
                   IN  [sup EXCEPT !.status = inferred, !.active = FALSE, !.component = "",
                                   !.progress = IF inferred = "COMPLETED" THEN 100 ELSE @]
              ELSE sup
    /\ UNCHANGED <<registered, alive, cutShort, overdue>>

(* The processes and the clock. *)
Exit(process) ==
    /\ process \in alive
    /\ alive' = alive \ {process}
    /\ UNCHANGED <<sup, registered, cutShort, overdue>>

Expire ==
    /\ sup.active /\ ~ overdue
    /\ overdue' = TRUE
    /\ UNCHANGED <<sup, registered, alive, cutShort>>
=============================================================================
