------------------------ MODULE DashboardCollection ------------------------
(***************************************************************************)
(* assessment_dashboard.py: the request threads of the dashboard (POST     *)
(* /collect, /cancel and the four /validate-... routes), the lock they     *)
(* share, the metadata.json a collection leaves behind, and the SIGTERM    *)
(* handler of the main thread, over one CollectionSupervisor.              *)
(***************************************************************************)
EXTENDS CollectionSupervisor, Sequences

CONSTANTS Handlers,       \* request threads
          Plan,           \* the components in the order do_POST runs them
          Recorded,       \* those whose exit code goes to collectorExitCodes
          Interim,        \* how many run before the interim metadata is written
          MaxCollections, \* bound: collections started
          Faults          \* bound: TRUE when writes and the final check may raise

ASSUME PlanAssumption ==
    /\ Plan \in Seq(Components) /\ Recorded \subseteq Components
    /\ Interim \in 1 .. Len(Plan) - 1 /\ Plan[1] \in Recorded

\* None is neither a thread nor a process.
ASSUME ThreadAssumption == None \notin Handlers \cup (Nat \X Nat)

ASSUME BoundAssumption == MaxCollections \in Nat

VARIABLES pc,        \* where each request thread is
          lock,      \* LOCK: the thread that holds it
          step,      \* index in Plan of the component the thread runs
          result,    \* returncode of the component the thread ran last
          failed,    \* any(codes)
          final,     \* final_status
          target,    \* process a cancel read under the supervisor's lock
          answer,    \* what the client of the thread was told
          metadata,  \* status in the metadata.json of each collection
          started,   \* collections started so far
          main       \* the main thread: serving, then the steps of a SIGTERM

handlerVars == <<pc, lock, step, result, failed, final, target, answer>>
vars == <<supervisorVars, handlerVars, metadata, started, main>>

Collections == 1 .. MaxCollections
Signal == "main"                        \* the main thread, where it cancels
Process(h) == <<sup.collection, step[h]>>
Component(h) == Plan[step[h]]
Down == main = "down"

Goto(h, from, to) == ~ Down /\ pc[h] = from /\ pc' = [pc EXCEPT ![h] = to]
WriteMetadata(status) == metadata' = [metadata EXCEPT ![sup.collection] = status]

Init ==
    /\ SupervisorInit
    /\ pc = [h \in Handlers |-> "idle"]
    /\ lock = None
    /\ step = [h \in Handlers |-> 1]
    /\ result = [h \in Handlers |-> 0]
    /\ failed = [h \in Handlers |-> FALSE]
    /\ final = [h \in Handlers |-> "FAILED"]
    /\ target = [t \in Handlers \cup {Signal} |-> None]
    /\ answer = [h \in Handlers |-> "none"]
    /\ metadata = [c \in Collections |-> "absent"]
    /\ started = 0
    /\ main = "serving"
----------------------------------------------------------------------------
(* POST /cancel needs neither LOCK nor a collection of its own. *)
PostCancel(h) ==
    /\ Goto(h, "idle", "kill")
    /\ main = "serving"
    /\ CancelUnderLock
    /\ target' = [target EXCEPT ![h] = CancelTarget]
    /\ answer' = [answer EXCEPT ![h] = "none"]
    /\ UNCHANGED <<lock, step, result, failed, final, metadata, started, main>>

KillTarget(h) ==
    /\ Goto(h, "kill", "idle")
    /\ Terminate(target[h])
    /\ target' = [target EXCEPT ![h] = None]
    /\ UNCHANGED <<lock, step, result, failed, final, answer, metadata, started, main>>

(* LOCK.acquire(blocking=False): 409 when a collection or a validation runs. *)
TryLock(h, next) ==
    /\ main = "serving"
    /\ IF lock = None
       THEN Goto(h, "idle", next) /\ lock' = h /\ answer' = [answer EXCEPT ![h] = "none"]
       ELSE Goto(h, "idle", "idle") /\ lock' = lock /\ answer' = [answer EXCEPT ![h] = "busy"]
    /\ final' = [final EXCEPT ![h] = "FAILED"]
    /\ UNCHANGED <<supervisorVars, step, result, failed, target, metadata, started, main>>

(* A validation writes its report, or fails, and releases LOCK either way. *)
PostValidate(h) == TryLock(h, "validate")

Validate(h) ==
    /\ Goto(h, "validate", "idle")
    /\ lock' = None
    /\ \E outcome \in {"report", "error"}: answer' = [answer EXCEPT ![h] = outcome]
    /\ UNCHANGED <<supervisorVars, step, result, failed, final, target, metadata, started, main>>

PostCollect(h) == TryLock(h, "form")

(* An invalid form returns early; a valid one starts the supervisor. *)
RejectForm(h) ==
    /\ Goto(h, "form", "finally")
    /\ answer' = [answer EXCEPT ![h] = "error"]
    /\ UNCHANGED <<supervisorVars, lock, step, result, failed, final, target, metadata, started, main>>

StartCollection(h) ==
    /\ started < MaxCollections
    /\ IF sup.active
       THEN Goto(h, "form", "except") /\ UNCHANGED <<supervisorVars, started>>
       ELSE /\ Goto(h, "form", "enter")
            /\ StartSupervisor(started + 1)
            /\ started' = started + 1
    /\ step' = [step EXCEPT ![h] = 1]
    /\ failed' = [failed EXCEPT ![h] = FALSE]
    /\ UNCHANGED <<lock, result, final, target, answer, metadata, main>>
----------------------------------------------------------------------------
(* SUPERVISOR.run, for the component of the thread's step. *)
RunEnter(h) ==
    /\ \/ /\ Goto(h, "enter", "ran") /\ RunRefused
          /\ result' = [result EXCEPT ![h] = IF Stopped THEN StoppedResult ELSE 124]
       \/ /\ Goto(h, "enter", "spawn") /\ RunAdmitted(Component(h))
          /\ UNCHANGED result
    /\ UNCHANGED <<lock, step, failed, final, target, answer, metadata, started, main>>

RunSpawn(h) ==
    /\ \/ Goto(h, "spawn", "register") /\ Spawn(Process(h)) /\ UNCHANGED result
       \/ /\ Goto(h, "spawn", "ran") /\ result' = [result EXCEPT ![h] = 127]   \* OSError
          /\ UNCHANGED supervisorVars
    /\ UNCHANGED <<lock, step, failed, final, target, answer, metadata, started, main>>

RunRegisterUnchecked(h) ==
    /\ Goto(h, "register", "wait")
    /\ Register(Process(h))
    /\ UNCHANGED <<lock, step, result, failed, final, target, answer, metadata, started, main>>

RunRegister(h) ==
    /\ Goto(h, "register", IF Stopped THEN "terminate" ELSE "wait")
    /\ Register(Process(h))
    /\ UNCHANGED <<lock, step, result, failed, final, target, answer, metadata, started, main>>

RunTerminate(h) ==
    /\ Goto(h, "terminate", "wait")
    /\ Terminate(Process(h))
    /\ UNCHANGED <<lock, step, result, failed, final, target, answer, metadata, started, main>>

(* communicate returns when the process has ended, however it ended. *)
RunReturns(h) ==
    /\ Goto(h, "wait", "reap")
    /\ Process(h) \notin alive
    /\ \E code \in (IF Process(h) \in cutShort THEN {1} ELSE {0, 1}):
          result' = [result EXCEPT ![h] = code]
    /\ UNCHANGED <<supervisorVars, lock, step, failed, final, target, answer, metadata, started, main>>

RunTimesOutNever(h) == Goto(h, "nowhere", "overrun") /\ UNCHANGED vars

(* ... or raises TimeoutExpired; the process is then terminated outside the lock. *)
RunTimesOut(h) ==
    /\ Goto(h, "wait", "overrun")
    /\ Process(h) \in alive
    /\ ComponentTimedOut
    /\ UNCHANGED <<lock, step, result, failed, final, target, answer, metadata, started, main>>

RunKill(h) ==
    /\ Goto(h, "overrun", "reap")
    /\ Terminate(Process(h))
    /\ result' = [result EXCEPT ![h] = 124]
    /\ UNCHANGED <<lock, step, failed, final, target, answer, metadata, started, main>>

RunReap(h) ==
    /\ Goto(h, "reap", "judge")
    /\ Complete(Component(h), Process(h))
    /\ UNCHANGED <<lock, step, result, failed, final, target, answer, metadata, started, main>>

(* _stop is read again, without the lock: a stop replaces the exit code. *)
RunJudge(h) ==
    /\ Goto(h, "judge", "ran")
    /\ result' = [result EXCEPT ![h] = IF Stopped THEN StoppedResult ELSE @]
    /\ UNCHANGED <<supervisorVars, lock, step, failed, final, target, answer, metadata, started, main>>
----------------------------------------------------------------------------
(* The preflight: a collection whose preflight was stopped leaves its state *)
(* behind, one whose preflight failed leaves nothing.                       *)
PreflightEnds(h) ==
    /\ step[h] = 1
    /\ \/ /\ result[h] = 0
          /\ Goto(h, "ran", "enter")
          /\ WriteMetadata("RUNNING")
          /\ step' = [step EXCEPT ![h] = 2]
          /\ UNCHANGED <<supervisorVars, answer>>
       \/ /\ result[h] # 0
          /\ Goto(h, "ran", "finally")
          /\ FinishSupervisor("FAILED")
          /\ IF Stopped THEN WriteMetadata(sup.stopKind) ELSE UNCHANGED metadata
          /\ answer' = [answer EXCEPT ![h] = "error"]
          /\ UNCHANGED step
    /\ UNCHANGED <<lock, result, failed, final, target, started, main>>

OutcomeOfCodes(bad) == IF bad THEN "FAILED" ELSE "COMPLETED"

(* Every later component: note the exit code and go on, whatever it was. *)
Outcome(bad) == IF Stopped THEN sup.stopKind ELSE IF bad THEN "FAILED" ELSE "COMPLETED"

ComponentEnds(h) ==
    LET bad == failed[h] \/ (Component(h) \in Recorded /\ result[h] # 0)
        interim == IF Outcome(bad) = "COMPLETED" THEN "RUNNING" ELSE Outcome(bad)
    IN  /\ step[h] > 1
        /\ failed' = [failed EXCEPT ![h] = bad]
        /\ IF step[h] = Interim THEN WriteMetadata(interim) ELSE UNCHANGED metadata
        /\ IF step[h] < Len(Plan)
           THEN Goto(h, "ran", "enter") /\ step' = [step EXCEPT ![h] = @ + 1]
           ELSE Goto(h, "ran", "control") /\ UNCHANGED step
        /\ UNCHANGED <<supervisorVars, lock, result, final, target, answer, started, main>>

(* control = SUPERVISOR.status() decides final_status; writing it is another step. *)
Control(h) ==
    /\ Goto(h, "control", "record")
    /\ final' = [final EXCEPT ![h] = Outcome(failed[h])]
    /\ UNCHANGED <<supervisorVars, lock, step, result, failed, target, answer, metadata, started, main>>

Record(h) ==
    /\ Goto(h, "record", IF final[h] = "COMPLETED" THEN "recheck" ELSE "finish")
    /\ WriteMetadata(final[h])
    /\ UNCHANGED <<supervisorVars, lock, step, result, failed, final, target, answer, started, main>>

(* The final contract check is a plain subprocess: no stop reaches it. *)
Recheck(h) ==
    /\ Goto(h, "recheck", "finish")
    /\ \E outcome \in {"COMPLETED", "FAILED"}: final' = [final EXCEPT ![h] = outcome]
    /\ UNCHANGED <<supervisorVars, lock, step, result, failed, target, answer, metadata, started, main>>

Finish(h) ==
    /\ Goto(h, "finish", "reply")
    /\ FinishSupervisor(final[h])
    /\ UNCHANGED <<lock, step, result, failed, final, target, answer, metadata, started, main>>

(* The metadata is written again with final_status, not with what finish returned. *)
Reply(h) ==
    /\ Goto(h, "reply", "finally")
    /\ WriteMetadata(final[h])
    /\ answer' = [answer EXCEPT ![h] = "ok"]
    /\ UNCHANGED <<supervisorVars, lock, step, result, failed, final, target, started, main>>

(* A write or the final check raises: nothing writes the metadata any more. *)
Raise(h) ==
    /\ Faults
    /\ pc[h] \in {"ran", "record", "recheck", "reply"}
    /\ Goto(h, pc[h], "except")
    /\ UNCHANGED <<supervisorVars, lock, step, result, failed, final, target, answer, metadata, started, main>>

Except(h) ==
    /\ Goto(h, "except", "finally")
    /\ final' = [final EXCEPT ![h] = IF Stopped THEN sup.stopKind ELSE "FAILED"]
    /\ answer' = [answer EXCEPT ![h] = "error"]
    /\ UNCHANGED <<supervisorVars, lock, step, result, failed, target, metadata, started, main>>

FinallyWithoutFinish(h) ==
    /\ Goto(h, "finally", "idle")
    /\ lock' = None
    /\ UNCHANGED <<supervisorVars, step, result, failed, final, target, answer, metadata, started, main>>

Finally(h) ==
    /\ Goto(h, "finally", "idle")
    /\ FinishSupervisor(final[h])
    /\ lock' = None
    /\ step' = [step EXCEPT ![h] = 1]            \* the locals of do_POST are gone
    /\ result' = [result EXCEPT ![h] = 0]
    /\ failed' = [failed EXCEPT ![h] = FALSE]
    /\ final' = [final EXCEPT ![h] = "FAILED"]
    /\ UNCHANGED <<target, answer, metadata, started, main>>
----------------------------------------------------------------------------
(* SIGTERM: the handler cancels, then serve_forever ends and shutdown cancels *)
(* once more; the request threads are daemons and vanish with the process.    *)
SignalCancel(from, to) ==
    /\ main = from /\ main' = to
    /\ CancelUnderLock
    /\ target' = [target EXCEPT ![Signal] = CancelTarget]
    /\ UNCHANGED <<pc, lock, step, result, failed, final, answer, metadata, started>>

SignalKill(from, to) ==
    /\ main = from /\ main' = to
    /\ Terminate(target[Signal])
    /\ target' = [target EXCEPT ![Signal] = None]
    /\ UNCHANGED <<pc, lock, step, result, failed, final, answer, metadata, started>>

Sigterm == SignalCancel("serving", "signalled")
LeaveServe == SignalKill("signalled", "leaving")
Shutdown == SignalCancel("leaving", "closing")
Close == SignalKill("closing", "down")

ProcessEnds ==
    /\ \E process \in alive: Exit(process)
    /\ UNCHANGED <<handlerVars, metadata, started, main>>

DeadlinePasses ==
    /\ Expire
    /\ UNCHANGED <<handlerVars, metadata, started, main>>

Arrive(h) == PostCancel(h) \/ PostValidate(h) \/ PostCollect(h)

Run(h) ==
    \/ RunEnter(h) \/ RunSpawn(h) \/ RunRegister(h) \/ RunTerminate(h) \/ RunReturns(h)
    \/ RunTimesOut(h) \/ RunKill(h) \/ RunReap(h) \/ RunJudge(h)

Work(h) ==
    \/ KillTarget(h) \/ Validate(h) \/ RejectForm(h) \/ StartCollection(h) \/ Run(h)
    \/ PreflightEnds(h) \/ ComponentEnds(h) \/ Control(h) \/ Record(h) \/ Recheck(h)
    \/ Finish(h) \/ Reply(h) \/ Raise(h) \/ Except(h) \/ Finally(h)

Next == \/ \E h \in Handlers: Arrive(h) \/ Work(h)
        \/ Sigterm \/ LeaveServe \/ Shutdown \/ Close
        \/ ProcessEnds \/ DeadlinePasses

Spec == Init /\ [][Next]_vars

(* Threads run on, and communicate has a time-out; processes need not end by  *)
(* themselves, clients need not ask, and nobody need send a signal.           *)
FairSpec == Spec /\ \A h \in Handlers: WF_vars(Work(h))
----------------------------------------------------------------------------
TypeOK ==
    /\ sup \in [active: BOOLEAN,
                status: {"IDLE", "RUNNING", "COMPLETED", "FAILED", "CANCELLED", "TIMED_OUT"},
                collection: 0 .. MaxCollections, stopKind: {"", "CANCELLED", "TIMED_OUT"},
                component: Components \cup {"", "preparing"},
                completed: SUBSET Components, progress: 0 .. 100]
    /\ alive \cup cutShort \subseteq Collections \X (1 .. Len(Plan))
    /\ registered \in (Collections \X (1 .. Len(Plan))) \cup {None}
    /\ lock \in Handlers \cup {None} /\ overdue \in BOOLEAN
    /\ step \in [Handlers -> 1 .. Len(Plan)]
    /\ result \in [Handlers -> {0, 1, 124, 127, 130}]
    /\ answer \in [Handlers -> {"none", "busy", "error", "report", "ok"}]

(* LOCK and the supervisor agree: whoever is inside a collection or a        *)
(* validation holds LOCK, and the supervisor is active only on behalf of the *)
(* holder. A collection that ended without finish would make every later one *)
(* raise; one that lost LOCK would share the supervisor with another.        *)
LockGuardsSupervisor ==
    /\ \A h \in Handlers: pc[h] \notin {"idle", "kill"} => lock = h
    /\ sup.active => lock # None

(* Once a collection is stopped, a process of it that is still alive has     *)
(* somebody on the way to terminate it: a canceller that read it, or its own *)
(* thread, which has not looked at the stop since it started the process.    *)
(* No interleaving of cancel and run lets a process run on unnoticed.        *)
StopReachesProcess ==
    Stopped /\ ~ Down =>
        \A p \in alive:
            \/ \E t \in DOMAIN target: target[t] = p
            \/ \E h \in Handlers: /\ Process(h) = p
                                  /\ pc[h] \in {"register", "terminate", "overrun"}

(* A collection one of whose components was terminated is recorded as        *)
(* CANCELLED or TIMED_OUT when its thread is through, even when the exit     *)
(* code of that component is not recorded; only a write that raises leaves   *)
(* something else behind (the run has Faults = FALSE).                       *)
CutShortIsRecorded ==
    lock = None =>
        \A p \in cutShort: metadata[p[1]] \in {"CANCELLED", "TIMED_OUT"}

(* The supervisor implements the life cycle of a collection: the first stop  *)
(* decides how it ends, whatever the thread asks finish for.                 *)
Lifecycle == INSTANCE CollectionLifecycle
    WITH phase <- IF sup.active THEN "RUNNING" ELSE sup.status, stopKind <- sup.stopKind
ImplementsLifecycle == Lifecycle!Spec

(* Every request thread gets back to idle, so LOCK is always released: a     *)
(* hung component ends at its time-out, a stopped one when it is terminated. *)
EveryRequestEnds == \A h \in Handlers: pc[h] # "idle" ~> (pc[h] = "idle" \/ Down)
=============================================================================
