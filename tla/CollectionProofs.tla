-------------------------- MODULE CollectionProofs --------------------------
(***************************************************************************)
(* What runs on the two sides of a collection: the dashboard that starts    *)
(* and stops it, and the inventory that one of its components takes.        *)
(*                                                                         *)
(* DashboardCollection, for every plan, every number of request threads and *)
(* of collections, with or without raising writes: LOCK and the supervisor  *)
(* agree, a stop reaches the process that runs, and the supervisor keeps    *)
(* the life cycle it promises.  Without raising writes, a collection that   *)
(* was cut short says so.                                                   *)
(*                                                                         *)
(* InventoryCollection, for any set of resources and clusters, any number   *)
(* of worker threads and sessions, and any budget: requests keep their      *)
(* pace, a resumption reuses what is its own, and a report of a fresh       *)
(* session does not promise more than the session collected.                *)
(***************************************************************************)
EXTENDS DashboardCollection, InventoryCollection, FiniteSums

(* The dashboard *)

\* A thread that neither waits for a request nor cancels holds LOCK.
Outside == {"idle", "kill"}

\* From start to finish the supervisor is active.
Collecting ==
    {"enter", "spawn", "register", "wait", "terminate", "overrun", "reap", "judge",
     "ran", "control", "record", "recheck", "finish"}

Ending == {"except", "finally"}

Inside == Collecting \cup Ending \cup {"validate", "form", "reply"}

\* Where a process of the thread may be alive.
Running == {"register", "wait", "terminate", "overrun"}

StopKinds == {"CANCELLED", "TIMED_OUT"}

Processes == Nat \X (1 .. Len(Plan))

Shown == {Progress(completed) : completed \in SUBSET Components} \cup {0, 100}

SupervisorType ==
    sup \in [active : BOOLEAN,
             status : {"IDLE", "RUNNING", "COMPLETED", "FAILED"} \cup StopKinds,
             collection : Nat, stopKind : {""} \cup StopKinds,
             component : Components \cup {"", "preparing"},
             completed : SUBSET Components, progress : Shown]

TypeInv ==
    /\ SupervisorType
    /\ registered \in Processes \cup {None}
    /\ alive \subseteq Processes
    /\ pc \in [Handlers -> Outside \cup Inside]
    /\ step \in [Handlers -> 1 .. Len(Plan)]
    /\ final \in [Handlers -> {"COMPLETED", "FAILED"} \cup StopKinds]
    /\ target \in [Handlers \cup {Signal} -> Processes \cup {None}]
    /\ started \in Nat

\* A supervisor that is not active does not say RUNNING.
Settled == ~ sup.active => sup.status # "RUNNING"

\* Nobody holds LOCK and nothing runs.
Free ==
    /\ lock = None
    /\ \A g \in Handlers : pc[g] \in Outside
    /\ ~ sup.active
    /\ alive = {}

\* Thread h holds LOCK, and the supervisor works for it alone.
Owns(h) ==
    /\ lock = h
    /\ pc[h] \in Inside
    /\ \A g \in Handlers \ {h} : pc[g] \in Outside
    /\ sup.active => pc[h] \in Collecting \cup Ending
    /\ pc[h] \in Collecting => sup.active
    /\ pc[h] = "form" => final[h] = "FAILED"
    /\ final[h] \in StopKinds => Stopped
    /\ alive # {} => pc[h] \in Running
    /\ \A p \in alive : p = Process(h)
    /\ pc[h] \in {"wait", "terminate"} => registered = Process(h)

IInv ==
    /\ TypeInv
    /\ Settled
    /\ Free \/ \E h \in Handlers : Owns(h)
    /\ StopReachesProcess

-----------------------------------------------------------------------------
\* A plan is a preflight and at least one more component.
LEMMA PlanLength == Len(Plan) \in Nat /\ 1 \in 1 .. Len(Plan) /\ 2 \in 1 .. Len(Plan)
  <1>1. Len(Plan) \in Nat
    BY PlanAssumption
  <1> QED
    BY <1>1, PlanAssumption

\* Nothing is collected at first.
LEMMA InitIInv == Init => IInv
  <1> SUFFICES ASSUME Init PROVE IInv
    OBVIOUS
  <1> USE DEF Init, SupervisorInit
  <1>2. TypeInv
    BY PlanLength DEF TypeInv, SupervisorType, Outside, Shown
  <1>3. Settled /\ Free /\ StopReachesProcess
    BY DEF Settled, Free, Outside, StopReachesProcess, Stopped
  <1> QED
    BY <1>2, <1>3 DEF IInv

-----------------------------------------------------------------------------
(* Types *)

\* A process and its component.
LEMMA OwnProcess ==
    ASSUME TypeInv, NEW h \in Handlers
    PROVE  Process(h) \in Processes /\ Component(h) \in Components
  <1>1. step[h] \in 1 .. Len(Plan) /\ sup.collection \in Nat
    BY DEF TypeInv, SupervisorType
  <1>2. Plan[step[h]] \in Components
    BY <1>1, PlanAssumption
  <1> QED
    BY <1>1, <1>2 DEF Process, Processes, Component

\* What the supervisor does to its state.
LEMMA SupervisorTypes ==
    ASSUME TypeInv
    PROVE  /\ \A kind \in StopKinds : MarkStop(kind) => SupervisorType'
           /\ \A status \in {"COMPLETED", "FAILED"} \cup StopKinds :
                 FinishSupervisor(status) => SupervisorType'
           /\ \A component \in Components, process \in Processes :
                 Complete(component, process) => SupervisorType'
           /\ \A component \in Components : RunAdmitted(component) => SupervisorType'
           /\ \A collection \in Nat : StartSupervisor(collection) => SupervisorType'
           /\ UNCHANGED sup => SupervisorType'
  <1>1. ASSUME NEW kind \in StopKinds, MarkStop(kind) PROVE SupervisorType'
    BY <1>1 DEF TypeInv, SupervisorType, MarkStop, StopKinds
  <1>2. ASSUME NEW status \in {"COMPLETED", "FAILED"} \cup StopKinds, FinishSupervisor(status)
        PROVE  SupervisorType'
    <2>1. PICK inferred \in {"COMPLETED", "FAILED"} \cup StopKinds :
              sup' = IF sup.active
                     THEN [sup EXCEPT !.status = inferred, !.active = FALSE, !.component = "",
                                      !.progress = IF inferred = "COMPLETED" THEN 100 ELSE @]
                     ELSE sup
      <3>1. Stopped => sup.stopKind \in StopKinds
        BY DEF TypeInv, SupervisorType, Stopped
      <3> QED
        BY <1>2, <3>1 DEF FinishSupervisor
    <2>2. (IF inferred = "COMPLETED" THEN 100 ELSE sup.progress) \in Shown
      BY DEF TypeInv, SupervisorType, Shown
    <2> QED
      BY <2>1, <2>2 DEF TypeInv, SupervisorType
  <1>3. ASSUME NEW component \in Components, NEW process \in Processes, Complete(component, process)
        PROVE  SupervisorType'
    <2>1. sup.completed \cup {component} \in SUBSET Components
      BY DEF TypeInv, SupervisorType
    <2>2. Progress(sup.completed \cup {component}) \in Shown
      BY <2>1 DEF Shown
    <2> QED
      BY <1>3, <2>1, <2>2 DEF TypeInv, SupervisorType, Complete
  <1>4. ASSUME NEW component \in Components, RunAdmitted(component) PROVE SupervisorType'
    BY <1>4 DEF TypeInv, SupervisorType, RunAdmitted
  <1>5. ASSUME NEW collection \in Nat, StartSupervisor(collection) PROVE SupervisorType'
    BY <1>5 DEF TypeInv, SupervisorType, StartSupervisor, Shown
  <1>6. ASSUME UNCHANGED sup PROVE SupervisorType'
    BY <1>6 DEF TypeInv, SupervisorType
  <1> QED
    BY <1>1, <1>2, <1>3, <1>4, <1>5, <1>6

\* Every step keeps the types.
LEMMA RunTypes ==
    ASSUME TypeInv, NEW h \in Handlers, Run(h)
    PROVE  TypeInv'
  <1> USE OwnProcess, SupervisorTypes
          DEF Goto, Inside, Outside, Collecting, Ending, StopKinds
  <1>1. CASE RunEnter(h)
    BY <1>1 DEF RunEnter, RunRefused, RunAdmitted, TypeInv
  <1>2. CASE RunSpawn(h)
    BY <1>2 DEF RunSpawn, Spawn, supervisorVars, TypeInv
  <1>3. CASE RunRegister(h) \/ RunTerminate(h) \/ RunKill(h)
    BY <1>3 DEF RunRegister, Register, RunTerminate, RunKill, Terminate, TypeInv
  <1>4. CASE RunReturns(h) \/ RunTimesOut(h) \/ RunJudge(h)
    BY <1>4 DEF RunReturns, RunTimesOut, ComponentTimedOut, RunJudge, supervisorVars, TypeInv
  <1>5. CASE RunReap(h)
    BY <1>5 DEF RunReap, Complete, TypeInv
  <1> QED
    BY <1>1, <1>2, <1>3, <1>4, <1>5 DEF Run

LEMMA WorkTypes ==
    ASSUME TypeInv, NEW h \in Handlers, Arrive(h) \/ Work(h)
    PROVE  TypeInv'
  <1> USE SupervisorTypes DEF Goto, Inside, Outside, Collecting, Ending, StopKinds
  <1>1. CASE PostCancel(h)
    BY <1>1 DEF PostCancel, CancelUnderLock, CancelTarget, TypeInv
  <1>2. CASE PostValidate(h) \/ PostCollect(h)
    BY <1>2 DEF PostValidate, PostCollect, TryLock, supervisorVars, TypeInv
  <1>3. CASE KillTarget(h)
    BY <1>3 DEF KillTarget, Terminate, TypeInv
  <1>4. CASE Validate(h) \/ RejectForm(h) \/ Raise(h)
    BY <1>4 DEF Validate, RejectForm, Raise, supervisorVars, TypeInv
  <1>5. CASE StartCollection(h)
    <2>1. SupervisorType' /\ started' \in Nat
      <3>1. started + 1 \in Nat
        BY DEF TypeInv
      <3> QED
        BY <1>5, <3>1 DEF StartCollection, supervisorVars, TypeInv
    <2>2. registered' \in Processes \cup {None} /\ alive' = alive
      BY <1>5 DEF StartCollection, StartSupervisor, supervisorVars, TypeInv
    <2> QED
      BY <1>5, <2>1, <2>2, PlanLength DEF StartCollection, TypeInv
  <1>6. CASE Run(h)
    BY <1>6, RunTypes
  <1>7. CASE PreflightEnds(h)
    BY <1>7, PlanLength DEF PreflightEnds, FinishSupervisor, supervisorVars, TypeInv
  <1>8. CASE ComponentEnds(h)
    <2>1. step' \in [Handlers -> 1 .. Len(Plan)]
      <3>1. step[h] < Len(Plan) => step[h] + 1 \in 1 .. Len(Plan)
        BY PlanLength DEF TypeInv
      <3> QED
        BY <1>8, <3>1 DEF ComponentEnds, TypeInv
    <2>2. pc' \in [Handlers -> Outside \cup Inside]
      BY <1>8 DEF ComponentEnds, TypeInv
    <2>3. UNCHANGED <<supervisorVars, final, target, started>>
      BY <1>8 DEF ComponentEnds
    <2> QED
      BY <2>1, <2>2, <2>3 DEF supervisorVars, TypeInv
  <1>9. CASE Control(h)
    BY <1>9 DEF Control, Outcome, Stopped, supervisorVars, TypeInv, SupervisorType
  <1>10. CASE Record(h) \/ Recheck(h) \/ Reply(h)
    BY <1>10 DEF Record, Recheck, Reply, supervisorVars, TypeInv
  <1>11. CASE Finish(h) \/ Finally(h)
    BY <1>11, PlanLength DEF Finish, Finally, FinishSupervisor, TypeInv
  <1>12. CASE Except(h)
    BY <1>12 DEF Except, Stopped, supervisorVars, TypeInv, SupervisorType
  <1> QED
    BY <1>1, <1>2, <1>3, <1>4, <1>5, <1>6, <1>7, <1>8, <1>9, <1>10, <1>11, <1>12
    DEF Arrive, Work

LEMMA OtherTypes ==
    ASSUME TypeInv,
           \/ Sigterm \/ LeaveServe \/ Shutdown \/ Close
           \/ ProcessEnds \/ DeadlinePasses \/ UNCHANGED vars
    PROVE  TypeInv'
  <1> USE SupervisorTypes
  <1>1. CASE Sigterm \/ Shutdown
    BY <1>1
    DEF Sigterm, Shutdown, SignalCancel, CancelUnderLock, CancelTarget, StopKinds, TypeInv
  <1>2. CASE LeaveServe \/ Close
    BY <1>2 DEF LeaveServe, Close, SignalKill, Terminate, TypeInv
  <1>3. CASE ProcessEnds \/ DeadlinePasses
    BY <1>3 DEF ProcessEnds, Exit, DeadlinePasses, Expire, handlerVars, TypeInv
  <1>4. CASE UNCHANGED vars
    BY <1>4 DEF vars, supervisorVars, handlerVars, TypeInv
  <1> QED
    BY <1>1, <1>2, <1>3, <1>4

-----------------------------------------------------------------------------
(* The thread that holds LOCK *)

\* A component runs: the supervisor stays active, and the process is alive only
\* between its start and its end.
LEMMA RunOwns ==
    ASSUME TypeInv, Settled, NEW h \in Handlers, Owns(h), Run(h)
    PROVE  Settled' /\ Owns(h)'
  <1> USE DEF TypeInv, SupervisorType, Goto, Owns, Settled, Inside, Outside, Collecting, Ending,
              Running, Process, Stopped
  <1>1. CASE RunEnter(h)
    <2>1. CASE RunRefused /\ Goto(h, "enter", "ran")
      BY <1>1, <2>1 DEF RunEnter, RunRefused, MarkStop
    <2>2. CASE RunAdmitted(Component(h)) /\ Goto(h, "enter", "spawn")
      BY <1>1, <2>2 DEF RunEnter, RunAdmitted
    <2> QED
      BY <1>1, <2>1, <2>2 DEF RunEnter
  <1>2. CASE RunSpawn(h)
    BY <1>2 DEF RunSpawn, Spawn, supervisorVars
  <1>3. CASE RunRegister(h)
    BY <1>3 DEF RunRegister, Register
  <1>4. CASE RunTerminate(h)
    <2>1. alive' = {} /\ UNCHANGED <<sup, registered>>
      BY <1>4 DEF RunTerminate, Terminate
    <2>2. pc' = [pc EXCEPT ![h] = "wait"] /\ pc[h] = "terminate" /\ UNCHANGED <<lock, step, final>>
      BY <1>4 DEF RunTerminate
    <2> QED
      BY <2>1, <2>2
  <1>5. CASE RunKill(h)
    <2>1. alive' = {} /\ UNCHANGED <<sup, registered>>
      BY <1>5 DEF RunKill, Terminate
    <2>2. pc' = [pc EXCEPT ![h] = "reap"] /\ pc[h] = "overrun" /\ UNCHANGED <<lock, step, final>>
      BY <1>5 DEF RunKill
    <2> QED
      BY <2>1, <2>2
  <1>6. CASE RunReturns(h)
    <2>1. alive = {}
      BY <1>6 DEF RunReturns
    <2>2. /\ pc' = [pc EXCEPT ![h] = "reap"] /\ pc[h] = "wait"
          /\ UNCHANGED <<sup, registered, alive, lock, step, final>>
      BY <1>6 DEF RunReturns, supervisorVars
    <2> QED
      BY <2>1, <2>2
  <1>7. CASE RunJudge(h)
    BY <1>7 DEF RunJudge, supervisorVars
  <1>8. CASE RunTimesOut(h)
    BY <1>8 DEF RunTimesOut, ComponentTimedOut, MarkStop
  <1>9. CASE RunReap(h)
    BY <1>9 DEF RunReap, Complete
  <1> QED
    BY <1>1, <1>2, <1>3, <1>4, <1>5, <1>6, <1>7, <1>8, <1>9 DEF Run

\* The rest of a request, until LOCK is released.
LEMMA OwnerStep ==
    ASSUME TypeInv, Settled, NEW h \in Handlers, Owns(h), Work(h)
    PROVE  Settled' /\ (Free' \/ Owns(h)')
  <1> USE DEF TypeInv, SupervisorType, Goto, Owns, Settled, Inside, Outside, Collecting, Ending,
              Running, Process, Stopped
  <1>1. ~ KillTarget(h)
    BY DEF KillTarget
  <1>2. CASE Validate(h)
    BY <1>2 DEF Validate, supervisorVars, Free
  <1>3. CASE RejectForm(h) \/ Raise(h)
    BY <1>3 DEF RejectForm, Raise, supervisorVars
  <1>4. CASE StartCollection(h)
    <2>1. ~ sup.active /\ alive = {} /\ final[h] = "FAILED"
      BY <1>4 DEF StartCollection
    <2>2. /\ sup'.active /\ sup'.stopKind = "" /\ alive' = {}
          /\ pc' = [pc EXCEPT ![h] = "enter"] /\ UNCHANGED <<lock, final>>
      <3>1. StartSupervisor(started + 1) /\ Goto(h, "form", "enter")
        BY <1>4, <2>1 DEF StartCollection
      <3>2. UNCHANGED <<lock, final>>
        BY <1>4 DEF StartCollection
      <3> QED
        BY <2>1, <3>1, <3>2 DEF StartSupervisor
    <2> QED
      BY <2>1, <2>2 DEF StopKinds
  <1>5. CASE Run(h)
    BY <1>5, RunOwns
  <1>6. CASE PreflightEnds(h)
    <2>1. CASE Goto(h, "ran", "enter") /\ UNCHANGED supervisorVars
      BY <1>6, <2>1 DEF PreflightEnds, supervisorVars
    <2>2. CASE Goto(h, "ran", "finally") /\ FinishSupervisor("FAILED")
      <3>1. ~ sup'.active /\ sup'.status # "RUNNING" /\ sup'.stopKind = sup.stopKind
        BY <2>2 DEF FinishSupervisor, StopKinds
      <3>2. UNCHANGED <<lock, final, alive>> /\ pc' = [pc EXCEPT ![h] = "finally"] /\ alive = {}
        BY <1>6, <2>2 DEF PreflightEnds, FinishSupervisor
      <3> QED
        BY <3>1, <3>2
    <2> QED
      BY <1>6, <2>1, <2>2 DEF PreflightEnds
  <1>7. CASE ComponentEnds(h)
    BY <1>7 DEF ComponentEnds, supervisorVars
  <1>8. CASE Control(h)
    <2>1. final'[h] \in StopKinds => Stopped
      BY <1>8 DEF Control, Outcome, StopKinds
    <2> QED
      BY <1>8, <2>1 DEF Control, supervisorVars
  <1>12. CASE Except(h)
    <2>1. final'[h] \in StopKinds => Stopped
      BY <1>12 DEF Except, StopKinds
    <2> QED
      BY <1>12, <2>1 DEF Except, supervisorVars
  <1>9. CASE Record(h) \/ Recheck(h) \/ Reply(h)
    BY <1>9 DEF Record, Recheck, Reply, supervisorVars, StopKinds
  <1>10. CASE Finish(h)
    BY <1>10 DEF Finish, FinishSupervisor, StopKinds
  <1>11. CASE Finally(h)
    BY <1>11 DEF Finally, FinishSupervisor, Free, StopKinds
  <1> QED
    BY <1>1, <1>2, <1>3, <1>4, <1>5, <1>6, <1>7, <1>8, <1>9, <1>10, <1>11, <1>12 DEF Work

\* A stop reaches the process of a thread that moves on: between its start and
\* its registration the thread has yet to look at the stop.
LEMMA OwnerReaches ==
    ASSUME TypeInv, NEW h \in Handlers, Owns(h), Work(h), Free' \/ Owns(h)'
    PROVE  StopReachesProcess'
  <1>1. pc'[h] = "wait" => ~ Stopped' \/ alive' = {}
    BY DEF TypeInv, Owns, Work, Run, Goto, Inside, Outside, Collecting, Ending, Process, Stopped,
           Arrive, KillTarget, Validate, RejectForm, Raise, StartCollection, RunEnter, RunSpawn,
           RunRegister, Register, RunTerminate, Terminate, RunKill, RunReturns, RunTimesOut,
           RunReap, RunJudge, PreflightEnds, ComponentEnds, Control, Except, Record, Recheck,
           Reply, Finish, Finally
  <1>2. CASE Free'
    BY <1>2 DEF Free, StopReachesProcess
  <1>3. CASE Owns(h)'
    BY <1>1, <1>3 DEF Owns, Running, StopReachesProcess
  <1> QED
    BY <1>2, <1>3

-----------------------------------------------------------------------------
(* Everybody else *)

\* A step that leaves LOCK, the supervisor's activity and the thread that holds
\* LOCK alone, and starts no process.
Spares ==
    /\ lock' = lock /\ registered' = registered /\ alive' \subseteq alive
    /\ sup'.active = sup.active /\ sup'.collection = sup.collection
    /\ Stopped => Stopped'
    /\ ~ sup.active => sup'.status = sup.status
    /\ \A g \in Handlers :
          IF pc[g] \in Outside THEN pc'[g] \in Outside
          ELSE pc'[g] = pc[g] /\ step'[g] = step[g] /\ final'[g] = final[g]

LEMMA SparedOwner ==
    ASSUME Settled, Free \/ \E h \in Handlers : Owns(h), Spares
    PROVE  Settled' /\ (Free' \/ \E h \in Handlers : Owns(h)')
  <1>1. CASE Free
    BY <1>1 DEF Free, Spares, Settled
  <1>2. ASSUME NEW h \in Handlers, Owns(h) PROVE Settled' /\ Owns(h)'
    <2>1. Process(h)' = Process(h) /\ pc'[h] = pc[h] /\ final'[h] = final[h]
      BY <1>2 DEF Owns, Spares, Process, Inside, Outside, Collecting, Ending
    <2> QED
      BY <1>2, <2>1 DEF Owns, Spares, Settled
  <1> QED
    BY <1>1, <1>2

\* Whoever cancels marks the first stop, and reads the process that runs.
LEMMA CancelStep ==
    ASSUME IInv, ~ Down, NEW t \in Handlers \cup {Signal},
           CancelUnderLock, target' = [target EXCEPT ![t] = CancelTarget],
           UNCHANGED <<lock, step, final>>,
           \A g \in Handlers :
               IF pc[g] \in Outside THEN pc'[g] \in Outside ELSE pc'[g] = pc[g]
    PROVE  Spares /\ StopReachesProcess'
  <1> USE DEF IInv, TypeInv, SupervisorType, Stopped
  <1>1. Spares
    BY DEF CancelUnderLock, MarkStop, Spares
  <1>2. ASSUME NEW p \in alive
        PROVE  \/ \E u \in DOMAIN target' : target'[u] = p
               \/ \E h \in Handlers : /\ Process(h)' = p
                                      /\ pc'[h] \in {"register", "terminate", "overrun"}
    <2>1. PICK h \in Handlers : Owns(h)
      BY DEF Free
    <2>2. pc[h] \in Running /\ p = Process(h) /\ sup.active
      BY <2>1 DEF Owns, Running, Collecting
    <2>3. Process(h)' = Process(h) /\ pc'[h] = pc[h]
      BY <1>1, <2>2 DEF Spares, Process, Running, Outside
    <2>4. CASE pc[h] = "wait"
      <3>1. target'[t] = registered
        BY <2>2 DEF CancelTarget
      <3> QED
        BY <2>1, <2>2, <2>4, <3>1 DEF Owns
    <2> QED
      BY <2>2, <2>3, <2>4 DEF Running
  <1> QED
    BY <1>1, <1>2 DEF CancelUnderLock, StopReachesProcess

\* Whoever terminates what it read has nothing left to terminate.
LEMMA TerminateStep ==
    ASSUME IInv, ~ Down, NEW t \in Handlers \cup {Signal},
           Terminate(target[t]), target' = [target EXCEPT ![t] = None],
           UNCHANGED <<lock, step, final>>,
           \A g \in Handlers :
               IF pc[g] \in Outside THEN pc'[g] \in Outside ELSE pc'[g] = pc[g]
    PROVE  Spares /\ StopReachesProcess'
  <1> USE DEF IInv, TypeInv, SupervisorType, Stopped, Terminate
  <1>1. Spares
    BY DEF Spares
  <1>2. ASSUME NEW p \in alive', Stopped
        PROVE  \/ \E u \in DOMAIN target' : target'[u] = p
               \/ \E h \in Handlers : /\ Process(h)' = p
                                      /\ pc'[h] \in {"register", "terminate", "overrun"}
    <2>1. p \in alive /\ p # target[t]
      OBVIOUS
    <2>2. CASE \E u \in DOMAIN target : target[u] = p
      BY <2>1, <2>2
    <2>3. ASSUME NEW h \in Handlers, Process(h) = p, pc[h] \in {"register", "terminate", "overrun"}
          PROVE  Process(h)' = p /\ pc'[h] = pc[h]
      BY <2>3 DEF Process, Outside
    <2> QED
      BY <1>2, <2>1, <2>2, <2>3 DEF StopReachesProcess
  <1> QED
    BY <1>1, <1>2 DEF StopReachesProcess

\* So does a step that stops and terminates nothing.
LEMMA QuietStep ==
    ASSUME IInv, ~ Down, Spares, UNCHANGED <<sup, target>>
    PROVE  StopReachesProcess'
  <1>1. ASSUME NEW h \in Handlers, pc[h] \in {"register", "terminate", "overrun"}
        PROVE  Process(h)' = Process(h) /\ pc'[h] = pc[h]
    BY <1>1 DEF Spares, Process, Outside
  <1> QED
    BY <1>1 DEF IInv, Spares, StopReachesProcess, Stopped

\* LOCK goes to one thread, when nobody holds it.
LEMMA LockStep ==
    ASSUME IInv, NEW h \in Handlers, NEW next \in {"validate", "form"}, TryLock(h, next)
    PROVE  Settled' /\ (Free' \/ \E g \in Handlers : Owns(g)') /\ StopReachesProcess'
  <1> USE DEF IInv, TypeInv, SupervisorType, Goto, supervisorVars
  <1>1. ~ Down /\ UNCHANGED <<sup, target>>
    BY DEF TryLock
  <1>2. CASE lock = None
    <2>1. Free
      BY <1>2, ThreadAssumption DEF Owns
    <2>2. Owns(h)' /\ Settled' /\ alive' = {}
      BY <1>2, <2>1 DEF TryLock, Free, Owns, Settled, Inside, Outside, Collecting, Ending, Running, StopKinds
    <2> QED
      BY <2>2 DEF StopReachesProcess
  <1>3. CASE lock # None
    <2>1. Spares
      BY <1>3 DEF TryLock, Spares, Outside, Stopped
    <2> QED
      BY <1>1, <2>1, SparedOwner, QuietStep
  <1> QED
    BY <1>2, <1>3

-----------------------------------------------------------------------------
\* A thread that works on, other than to terminate what it cancelled, owns LOCK.
LEMMA WorkerOwns ==
    ASSUME IInv, NEW h \in Handlers, Work(h), ~ KillTarget(h)
    PROVE  Owns(h)
  <1>1. pc[h] \in Inside
    BY DEF Work, Run, Goto, Inside, Collecting, Ending, Validate, RejectForm, Raise, StartCollection,
           RunEnter, RunSpawn, RunRegister, RunTerminate, RunKill, RunReturns, RunTimesOut, RunReap,
           RunJudge, PreflightEnds, ComponentEnds, Control, Except, Record, Recheck, Reply, Finish,
           Finally
  <1> QED
    BY <1>1 DEF IInv, Free, Owns, Inside, Outside, Collecting, Ending

\* Every step keeps the invariant.
LEMMA NextIInv == IInv /\ [Next]_vars => IInv'
  <1> SUFFICES ASSUME IInv, [Next]_vars
               PROVE  Settled' /\ (Free' \/ \E h \in Handlers : Owns(h)') /\ StopReachesProcess'
    BY WorkTypes, OtherTypes DEF IInv, Next
  <1> USE DEF IInv
  <1>1. ASSUME NEW h \in Handlers, PostCancel(h) PROVE Spares /\ StopReachesProcess'
    <2>1. /\ CancelUnderLock /\ target' = [target EXCEPT ![h] = CancelTarget]
          /\ UNCHANGED <<lock, step, final>> /\ ~ Down
          /\ \A g \in Handlers :
                IF pc[g] \in Outside THEN pc'[g] \in Outside ELSE pc'[g] = pc[g]
      BY <1>1 DEF PostCancel, Goto, Outside, TypeInv
    <2> QED
      BY <2>1, CancelStep
  <1>2. ASSUME NEW h \in Handlers, KillTarget(h) PROVE Spares /\ StopReachesProcess'
    <2>1. /\ Terminate(target[h]) /\ target' = [target EXCEPT ![h] = None]
          /\ UNCHANGED <<lock, step, final>> /\ ~ Down
          /\ \A g \in Handlers :
                IF pc[g] \in Outside THEN pc'[g] \in Outside ELSE pc'[g] = pc[g]
      BY <1>2 DEF KillTarget, Goto, Outside, TypeInv
    <2> QED
      BY <2>1, TerminateStep
  <1>3. CASE Sigterm \/ Shutdown
    <2>1. /\ CancelUnderLock /\ target' = [target EXCEPT ![Signal] = CancelTarget]
          /\ UNCHANGED <<lock, step, final, pc>> /\ ~ Down
      BY <1>3 DEF Sigterm, Shutdown, SignalCancel, Down
    <2> QED
      BY <2>1, CancelStep, SparedOwner
  <1>4. CASE LeaveServe \/ Close
    <2>1. /\ Terminate(target[Signal]) /\ target' = [target EXCEPT ![Signal] = None]
          /\ UNCHANGED <<lock, step, final, pc>> /\ ~ Down
      BY <1>4 DEF LeaveServe, Close, SignalKill, Down
    <2> QED
      BY <2>1, TerminateStep, SparedOwner
  <1>5. CASE ProcessEnds \/ DeadlinePasses \/ UNCHANGED vars
    <2>1. Spares /\ UNCHANGED <<sup, target, main>>
      BY <1>5
      DEF ProcessEnds, Exit, DeadlinePasses, Expire, vars, supervisorVars, handlerVars, Spares, Stopped
    <2>2. CASE Down
      BY <2>1, <2>2, SparedOwner DEF Down, StopReachesProcess
    <2> QED
      BY <2>1, <2>2, SparedOwner, QuietStep
  <1>6. ASSUME NEW h \in Handlers, Work(h), ~ KillTarget(h)
        PROVE  Settled' /\ (Free' \/ Owns(h)') /\ StopReachesProcess'
    <2>1. Owns(h)
      BY <1>6, WorkerOwns
    <2> QED
      BY <1>6, <2>1, OwnerStep, OwnerReaches
  <1>7. ASSUME NEW h \in Handlers, PostValidate(h) \/ PostCollect(h)
        PROVE  Settled' /\ (Free' \/ \E g \in Handlers : Owns(g)') /\ StopReachesProcess'
    BY <1>7, LockStep DEF PostValidate, PostCollect
  <1> QED
    BY <1>1, <1>2, <1>3, <1>4, <1>5, <1>6, <1>7, SparedOwner DEF Next, Arrive

\* The invariant holds throughout.
LEMMA Invariance == Spec => []IInv
  BY InitIInv, NextIInv, PTL DEF Spec

\* Whatever the threads, cancellations and signals interleave: who is inside a
\* collection or a validation holds LOCK, and the supervisor is active on
\* behalf of the holder (assessment_dashboard.py, do_POST).
THEOREM LockAndSupervisorAgree == Spec => []LockGuardsSupervisor
  <1>1. IInv => LockGuardsSupervisor
    BY ThreadAssumption
    DEF IInv, TypeInv, Free, Owns, Inside, Outside, Collecting, Ending, LockGuardsSupervisor
  <1> QED
    BY <1>1, Invariance, PTL

\* A stop that falls anywhere between the start of a process and its end has
\* somebody on the way to terminate it (CollectionSupervisor.run and cancel).
THEOREM StopsReachTheProcess == Spec => []StopReachesProcess
  <1>1. IInv => StopReachesProcess
    BY DEF IInv
  <1> QED
    BY <1>1, Invariance, PTL

-----------------------------------------------------------------------------
(* The life cycle *)

\* How a step of the supervisor looks from outside.
LEMMA MarkStopMaps ==
    ASSUME TypeInv, sup.active, NEW kind \in StopKinds, MarkStop(kind)
    PROVE  [Lifecycle!Next]_(Lifecycle!lifecycle)
  <1> USE DEF TypeInv, SupervisorType, Stopped, MarkStop
  <1>1. CASE Stopped
    BY <1>1 DEF Lifecycle!lifecycle
  <1>2. CASE ~ Stopped
    <2>1. Lifecycle!Stop(kind)
      BY <1>2 DEF Lifecycle!Stop
    <2> QED
      BY <2>1 DEF Lifecycle!Next, Lifecycle!StopKinds, StopKinds
  <1> QED
    BY <1>1, <1>2

LEMMA FinishMaps ==
    ASSUME TypeInv, NEW status \in {"COMPLETED", "FAILED"} \cup StopKinds,
           status \in StopKinds => Stopped, FinishSupervisor(status)
    PROVE  [Lifecycle!Next]_(Lifecycle!lifecycle)
  <1> USE DEF TypeInv, SupervisorType, Stopped, FinishSupervisor
  <1>1. CASE ~ sup.active
    BY <1>1 DEF Lifecycle!lifecycle
  <1>2. CASE sup.active
    <2>1. PICK outcome \in {"COMPLETED", "FAILED"} : ~ Stopped => outcome = status
      OBVIOUS
    <2>2. Lifecycle!End(outcome)
      BY <1>2, <2>1 DEF Lifecycle!End
    <2> QED
      BY <2>2 DEF Lifecycle!Next
  <1> QED
    BY <1>1, <1>2

LEMMA CancelMaps ==
    ASSUME TypeInv, CancelUnderLock
    PROVE  [Lifecycle!Next]_(Lifecycle!lifecycle)
  <1>1. CASE sup.active
    BY <1>1, MarkStopMaps DEF CancelUnderLock, StopKinds
  <1>2. CASE ~ sup.active
    BY <1>2 DEF CancelUnderLock, Lifecycle!lifecycle
  <1> QED
    BY <1>1, <1>2

\* Of a component's life only the stops show.
LEMMA RunMaps ==
    ASSUME TypeInv, NEW h \in Handlers, Owns(h), Run(h)
    PROVE  [Lifecycle!Next]_(Lifecycle!lifecycle)
  <1>1. CASE RunEnter(h)
    <2>1. sup.active
      BY <1>1 DEF RunEnter, Goto, Owns, Collecting
    <2>2. CASE RunRefused
      BY <2>1, <2>2, MarkStopMaps DEF RunRefused, StopKinds
    <2>3. CASE RunAdmitted(Component(h))
      BY <2>3 DEF RunAdmitted, TypeInv, SupervisorType, Lifecycle!lifecycle
    <2> QED
      BY <1>1, <2>2, <2>3 DEF RunEnter
  <1>2. CASE RunTimesOut(h)
    <2>1. sup.active
      BY <1>2 DEF RunTimesOut, Goto, Owns, Collecting
    <2> QED
      BY <1>2, <2>1, MarkStopMaps DEF RunTimesOut, ComponentTimedOut, StopKinds
  <1>3. CASE RunReap(h)
    BY <1>3 DEF RunReap, Complete, TypeInv, SupervisorType, Lifecycle!lifecycle
  <1>4. CASE \/ RunSpawn(h) \/ RunRegister(h) \/ RunTerminate(h) \/ RunReturns(h)
             \/ RunKill(h) \/ RunJudge(h)
    BY <1>4
    DEF RunSpawn, Spawn, RunRegister, Register, RunTerminate, Terminate, RunReturns, RunKill,
        RunJudge, supervisorVars, Lifecycle!lifecycle
  <1> QED
    BY <1>1, <1>2, <1>3, <1>4 DEF Run

LEMMA StepMaps ==
    ASSUME IInv, [Next]_vars
    PROVE  [Lifecycle!Next]_(Lifecycle!lifecycle)
  <1> USE DEF IInv
  <1>1. ASSUME NEW h \in Handlers, Arrive(h) \/ KillTarget(h)
        PROVE  [Lifecycle!Next]_(Lifecycle!lifecycle)
    BY <1>1, CancelMaps
    DEF Arrive, PostCancel, PostValidate, PostCollect, TryLock, KillTarget, Terminate,
        supervisorVars, Lifecycle!lifecycle
  <1>2. ASSUME NEW h \in Handlers, Work(h), ~ KillTarget(h)
        PROVE  [Lifecycle!Next]_(Lifecycle!lifecycle)
    <2>1. Owns(h)
      BY <1>2, WorkerOwns
    <2>2. final[h] \in {"COMPLETED", "FAILED"} \cup StopKinds /\ (final[h] \in StopKinds => Stopped)
      BY <2>1 DEF TypeInv, Owns
    <2>3. CASE StartCollection(h)
      <3>1. ~ sup.active /\ sup.status # "RUNNING" /\ StartSupervisor(started + 1)
        BY <2>1, <2>3 DEF StartCollection, Goto, Owns, Collecting, Ending, Settled
      <3>2. Lifecycle!Begin
        BY <3>1 DEF StartSupervisor, Lifecycle!Begin
      <3> QED
        BY <3>2 DEF Lifecycle!Next
    <2>4. CASE Run(h)
      BY <2>1, <2>4, RunMaps
    <2>5. CASE PreflightEnds(h) \/ Finish(h) \/ Finally(h)
      BY <2>2, <2>5, FinishMaps
      DEF PreflightEnds, Finish, Finally, StopKinds, supervisorVars, Lifecycle!lifecycle
    <2>6. CASE \/ Validate(h) \/ RejectForm(h) \/ ComponentEnds(h) \/ Control(h) \/ Record(h)
               \/ Recheck(h) \/ Reply(h) \/ Raise(h) \/ Except(h)
      BY <2>6
      DEF Validate, RejectForm, ComponentEnds, Control, Record, Recheck, Reply, Raise, Except,
          supervisorVars, Lifecycle!lifecycle
    <2> QED
      BY <1>2, <2>3, <2>4, <2>5, <2>6 DEF Work
  <1>3. CASE Sigterm \/ Shutdown
    BY <1>3, CancelMaps DEF Sigterm, Shutdown, SignalCancel
  <1>4. CASE \/ LeaveServe \/ Close \/ ProcessEnds \/ DeadlinePasses \/ UNCHANGED vars
    BY <1>4
    DEF LeaveServe, Close, SignalKill, Terminate, ProcessEnds, Exit, DeadlinePasses, Expire,
        vars, supervisorVars, Lifecycle!lifecycle
  <1> QED
    BY <1>1, <1>2, <1>3, <1>4 DEF Next

\* The dashboard implements the life cycle of a collection: one at a time, the
\* first stop decides, nothing else ends a stopped one (CollectionSupervisor.start,
\* _mark_stop and finish).
THEOREM KeepsLifecycle == Spec => ImplementsLifecycle
  <1>1. ASSUME Init PROVE Lifecycle!Init
    <2>1. ~ sup.active /\ sup.status = "IDLE" /\ sup.stopKind = ""
      BY <1>1 DEF Init, SupervisorInit
    <2> QED
      BY <2>1 DEF Lifecycle!Init
  <1>2. IInv /\ [Next]_vars => [Lifecycle!Next]_(Lifecycle!lifecycle)
    BY StepMaps
  <1> QED
    BY <1>1, <1>2, Invariance, PTL DEF Spec, ImplementsLifecycle, Lifecycle!Spec

-----------------------------------------------------------------------------
(* What is counted and recorded *)

\* The percentage shown is one, whatever is done: the weight divided by is never
\* zero, since a plan has components and each weighs something.
LEMMA ProgressBounds ==
    ASSUME NEW completed
    PROVE  Progress(completed) \in 0 .. 100
  <1> DEFINE total == Sum(Weight, Components)
             done == Sum(Weight, completed \cap Components)
  <1>1. \A c \in Components : Weight[c] \in Int /\ Weight[c] >= 1
    BY WeightAssumption
  <1>2. IsFiniteSet(Components) /\ IsFiniteSet(completed \cap Components)
    BY WeightAssumption, FS_Intersection
  <1>3. done \in Int /\ done >= 0
    BY <1>1, <1>2, SumType
  <1>4. total \in Int /\ total >= 1
    <2>1. PICK c \in Components : TRUE
      BY PlanLength, PlanAssumption
    <2>2. total = Weight[c] + Sum(Weight, Components \ {c})
      BY <1>1, <1>2, SumRemove
    <2>3. IsFiniteSet(Components \ {c})
      BY <1>2, FS_RemoveElement
    <2>4. Sum(Weight, Components \ {c}) \in Int /\ Sum(Weight, Components \ {c}) >= 0
      BY <1>1, <2>3, SumType
    <2> QED
      BY <1>1, <2>2, <2>4
  <1>5. Progress(completed) =
          LET percent == (200 * done + total) \div (2 * total)
          IN  IF percent > 99 THEN 99 ELSE percent
    BY DEF Progress, Sum
  <1> HIDE DEF total, done
  <1>6. (200 * done + total) \div (2 * total) \in Nat
    BY <1>3, <1>4
  <1> QED
    BY <1>5, <1>6

\* Processes of collections that have been started.
Seen == (1 .. started) \X (1 .. Len(Plan))

\* A thread at work on a collection, from its start to the reply.
AtWork == Collecting \cup {"reply"}

CountInv ==
    /\ sup.collection = started /\ started <= MaxCollections
    /\ alive \cup cutShort \subseteq Seen
    /\ registered \in Seen \cup {None}
    /\ target \in [Handlers \cup {Signal} -> Seen \cup {None}]
    /\ \A h \in Handlers : pc[h] \in AtWork => started >= 1
    /\ result \in [Handlers -> {0, 1, 124, 127, 130}]
    /\ answer \in [Handlers -> {"none", "busy", "error", "report", "ok"}]
    /\ metadata \in [Collections -> {"absent", "RUNNING", "COMPLETED", "FAILED"} \cup StopKinds]
    /\ overdue \in BOOLEAN

LEMMA InitCountInv == Init => CountInv
  <1> SUFFICES ASSUME Init PROVE CountInv
    OBVIOUS
  <1>1. sup.collection = started /\ started = 0 /\ alive \cup cutShort = {}
    BY DEF Init, SupervisorInit
  <1>2. \A h \in Handlers : pc[h] \notin AtWork
    BY DEF Init, AtWork, Collecting
  <1>3. /\ registered \in Seen \cup {None} /\ target \in [Handlers \cup {Signal} -> Seen \cup {None}]
        /\ result \in [Handlers -> {0, 1, 124, 127, 130}] /\ overdue \in BOOLEAN
        /\ answer \in [Handlers -> {"none", "busy", "error", "report", "ok"}]
    BY DEF Init, SupervisorInit
  <1>4. metadata \in [Collections -> {"absent", "RUNNING", "COMPLETED", "FAILED"} \cup StopKinds]
    BY DEF Init
  <1> QED
    BY <1>1, <1>2, <1>3, <1>4, BoundAssumption DEF CountInv

\* A component of a collection that has been started runs as one of its processes.
LEMMA OwnSeen ==
    ASSUME TypeInv, CountInv, NEW h \in Handlers, pc[h] \in AtWork
    PROVE  Process(h) \in Seen /\ Process(h)[1] = started /\ sup.collection \in Collections
  <1>1. started \in Nat /\ started >= 1 /\ sup.collection = started /\ started <= MaxCollections
    BY DEF CountInv, TypeInv
  <1>2. step[h] \in 1 .. Len(Plan)
    BY DEF TypeInv
  <1> QED
    BY <1>1, <1>2, BoundAssumption DEF Process, Seen, Collections

LEMMA RunCounts ==
    ASSUME TypeInv, CountInv, NEW h \in Handlers, Run(h)
    PROVE  CountInv'
  <1>1. pc[h] \in AtWork
    BY DEF Run, Goto, AtWork, Collecting, RunEnter, RunSpawn, RunRegister, RunTerminate,
           RunReturns, RunTimesOut, RunKill, RunReap, RunJudge
  <1>2. Process(h) \in Seen /\ started >= 1
    BY <1>1, OwnSeen DEF CountInv
  <1>4. UNCHANGED <<target, started, answer, metadata>>
    BY DEF Run, RunEnter, RunSpawn, RunRegister, RunTerminate,
           RunReturns, RunTimesOut, RunKill, RunReap, RunJudge
  <1>5. result' \in [Handlers -> {0, 1, 124, 127, 130}]
    BY DEF Run, RunEnter, RunSpawn, RunRegister, RunTerminate, StoppedResult,
           RunReturns, RunTimesOut, RunKill, RunReap, RunJudge, CountInv
  <1>6. sup'.collection = sup.collection /\ overdue' = overdue
    BY DEF TypeInv, SupervisorType, Run, RunEnter, RunRefused, RunAdmitted, MarkStop, RunSpawn,
           Spawn, RunRegister, Register, RunTerminate, Terminate, RunReturns, RunTimesOut,
           ComponentTimedOut, RunKill, RunReap, Complete, RunJudge, supervisorVars
  <1>7. /\ alive' \subseteq alive \cup {Process(h)} /\ cutShort' \subseteq cutShort \cup alive
        /\ registered' \in {registered, Process(h), None}
    BY DEF Run, RunEnter, RunRefused, RunAdmitted, RunSpawn,
           Spawn, RunRegister, Register, RunTerminate, Terminate, RunReturns, RunTimesOut,
           ComponentTimedOut, RunKill, RunReap, Complete, RunJudge, supervisorVars
  <1>8. \A g \in Handlers : pc'[g] \in AtWork => started >= 1
    BY <1>2 DEF CountInv
  <1> QED
    BY <1>2, <1>4, <1>5, <1>6, <1>7, <1>8 DEF CountInv, Seen

LEMMA WorkCounts ==
    ASSUME TypeInv, CountInv, NEW h \in Handlers, Arrive(h) \/ Work(h)
    PROVE  CountInv'
  <1>0. /\ pc \in [Handlers -> Outside \cup Inside] /\ started \in Nat
        /\ target \in [Handlers \cup {Signal} -> Seen \cup {None}]
    BY DEF TypeInv, CountInv
  <1>1. ASSUME UNCHANGED <<sup, registered, alive, cutShort, overdue, started, metadata, result>>,
               target' \in [Handlers \cup {Signal} -> Seen \cup {None}],
               \A g \in Handlers : pc'[g] \in AtWork => pc[g] \in AtWork,
               answer' \in [Handlers -> {"none", "busy", "error", "report", "ok"}]
        PROVE  CountInv'
    BY <1>1 DEF CountInv, Seen
  <1>2. CASE PostCancel(h)
    <2>1. /\ UNCHANGED <<registered, alive, cutShort, overdue, started, metadata, result>>
          /\ sup'.collection = sup.collection
      BY <1>2 DEF PostCancel, CancelUnderLock, MarkStop, TypeInv, SupervisorType
    <2>2. /\ target' \in [Handlers \cup {Signal} -> Seen \cup {None}]
          /\ answer' \in [Handlers -> {"none", "busy", "error", "report", "ok"}]
          /\ \A g \in Handlers : pc'[g] \in AtWork => pc[g] \in AtWork
      BY <1>0, <1>2 DEF Goto, PostCancel, CancelTarget, CountInv, AtWork, Collecting
    <2> QED
      BY <2>1, <2>2 DEF CountInv, Seen
  <1>3. CASE PostValidate(h) \/ PostCollect(h) \/ Validate(h) \/ RejectForm(h) \/ Raise(h) \/ Except(h)
    <2>1. UNCHANGED <<sup, registered, alive, cutShort, overdue, started, metadata, result, target>>
      BY <1>3
      DEF PostValidate, PostCollect, TryLock, Validate, RejectForm, Raise, Except, supervisorVars
    <2>2. \A g \in Handlers : pc'[g] \in AtWork => pc[g] \in AtWork
      BY <1>0, <1>3
      DEF Goto, PostValidate, PostCollect, TryLock, Validate, RejectForm, Raise, Except, AtWork, Collecting
    <2>3. answer' \in [Handlers -> {"none", "busy", "error", "report", "ok"}]
      BY <1>3
      DEF PostValidate, PostCollect, TryLock, Validate, RejectForm, Raise, Except, CountInv
    <2> QED
      BY <1>1, <2>1, <2>2, <2>3 DEF CountInv
  <1>4. CASE KillTarget(h)
    <2>1. /\ UNCHANGED <<sup, registered, overdue, started, metadata, result, answer>>
          /\ alive' \subseteq alive /\ cutShort' \subseteq cutShort \cup alive
      BY <1>4 DEF KillTarget, Terminate
    <2>2. /\ target' \in [Handlers \cup {Signal} -> Seen \cup {None}]
          /\ \A g \in Handlers : pc'[g] \in AtWork => pc[g] \in AtWork
      BY <1>0, <1>4 DEF Goto, KillTarget, CountInv, AtWork, Collecting
    <2> QED
      BY <2>1, <2>2 DEF CountInv, Seen
  <1>5. CASE StartCollection(h)
    <2>1. CASE sup.active
      <3>1. UNCHANGED <<sup, registered, alive, cutShort, overdue, started, metadata, result, target,
                        answer>>
        BY <1>5, <2>1 DEF StartCollection, supervisorVars
      <3>2. \A g \in Handlers : pc'[g] \in AtWork => pc[g] \in AtWork
        BY <1>0, <1>5, <2>1 DEF Goto, StartCollection, AtWork, Collecting
      <3> QED
        BY <1>1, <3>1, <3>2 DEF CountInv
    <2>2. CASE ~ sup.active
      <3>0. started' = started + 1 /\ started < MaxCollections /\ started \in Nat
        BY <1>0, <1>5, <2>2 DEF StartCollection
      <3>1. started' = started + 1 /\ started' <= MaxCollections /\ started' >= 1
        BY <3>0, BoundAssumption
      <3>2. StartSupervisor(started + 1) /\ UNCHANGED <<target, result, answer, metadata>>
        BY <1>5, <2>2 DEF StartCollection
      <3>3. /\ sup'.collection = started + 1 /\ overdue' = FALSE /\ registered' = None
            /\ UNCHANGED <<alive, cutShort>>
        BY <3>2 DEF StartSupervisor
      <3>4. Seen \subseteq Seen'
        BY <3>0 DEF Seen
      <3> QED
        BY <3>0, <3>1, <3>2, <3>3, <3>4 DEF CountInv
    <2> QED
      BY <2>1, <2>2
  <1>6. CASE Run(h)
    BY <1>6, RunCounts
  <1>7. CASE \/ PreflightEnds(h) \/ ComponentEnds(h) \/ Control(h) \/ Record(h) \/ Recheck(h)
             \/ Finish(h) \/ Reply(h) \/ Finally(h)
    <2>0. /\ UNCHANGED <<started, target>>
          /\ UNCHANGED supervisorVars \/ \E status : FinishSupervisor(status)
      BY <1>7 DEF PreflightEnds, ComponentEnds, Control, Record, Recheck, Finish, Reply, Finally
    <2>1. /\ UNCHANGED <<registered, alive, cutShort, overdue>>
          /\ sup'.collection = sup.collection
      BY <2>0 DEF FinishSupervisor, supervisorVars, TypeInv, SupervisorType
    <2>2. \A g \in Handlers : pc'[g] \in AtWork => pc[g] \in AtWork
      BY <1>0, <1>7
      DEF Goto, PreflightEnds, ComponentEnds, Control, Record, Recheck, Finish, Reply, Finally, AtWork,
          Collecting
    <2>3. /\ result' \in [Handlers -> {0, 1, 124, 127, 130}]
          /\ answer' \in [Handlers -> {"none", "busy", "error", "report", "ok"}]
      BY <1>7
      DEF PreflightEnds, ComponentEnds, Control, Record, Recheck, Finish, Reply, Finally, CountInv
    <2>4. metadata' \in [Collections -> {"absent", "RUNNING", "COMPLETED", "FAILED"} \cup StopKinds]
      <3>1. Stopped => sup.stopKind \in StopKinds
        BY DEF TypeInv, SupervisorType, Stopped
      <3>2. final[h] \in {"COMPLETED", "FAILED"} \cup StopKinds
        BY DEF TypeInv
      <3>3. metadata' = metadata
               \/ \E status \in {"RUNNING", "COMPLETED", "FAILED"} \cup StopKinds : WriteMetadata(status)
        BY <1>7, <3>1, <3>2
        DEF PreflightEnds, ComponentEnds, Control, Record, Recheck, Finish, Reply, Finally, Outcome
      <3> QED
        BY <3>3 DEF CountInv, WriteMetadata
    <2> QED
      BY <2>0, <2>1, <2>2, <2>3, <2>4 DEF CountInv, Seen
  <1> QED
    BY <1>2, <1>3, <1>4, <1>5, <1>6, <1>7 DEF Arrive, Work

LEMMA OtherCounts ==
    ASSUME TypeInv, CountInv,
           \/ Sigterm \/ LeaveServe \/ Shutdown \/ Close
           \/ ProcessEnds \/ DeadlinePasses \/ UNCHANGED vars
    PROVE  CountInv'
  <1> USE DEF TypeInv, SupervisorType
  <1>1. CASE Sigterm \/ Shutdown
    <2>1. /\ UNCHANGED <<registered, alive, cutShort, overdue, started, metadata, result, pc, answer>>
          /\ sup'.collection = sup.collection
      BY <1>1 DEF Sigterm, Shutdown, SignalCancel, CancelUnderLock, MarkStop
    <2>2. target' \in [Handlers \cup {Signal} -> Seen \cup {None}]
      BY <1>1 DEF Sigterm, Shutdown, SignalCancel, CancelTarget, CountInv
    <2> QED
      BY <2>1, <2>2 DEF CountInv, Seen
  <1>2. CASE LeaveServe \/ Close
    <2>1. /\ UNCHANGED <<sup, registered, overdue, started, metadata, result, pc, answer>>
          /\ alive' \subseteq alive /\ cutShort' \subseteq cutShort \cup alive
      BY <1>2 DEF LeaveServe, Close, SignalKill, Terminate
    <2>2. target' \in [Handlers \cup {Signal} -> Seen \cup {None}]
      BY <1>2 DEF LeaveServe, Close, SignalKill, CountInv
    <2> QED
      BY <2>1, <2>2 DEF CountInv, Seen
  <1>3. CASE ProcessEnds \/ DeadlinePasses \/ UNCHANGED vars
    <2>1. /\ UNCHANGED <<sup, registered, cutShort, started, metadata, result, pc, answer, target>>
          /\ alive' \subseteq alive /\ overdue' \in {overdue, TRUE}
      BY <1>3 DEF ProcessEnds, Exit, DeadlinePasses, Expire, handlerVars, vars, supervisorVars
    <2> QED
      BY <2>1 DEF CountInv, Seen
  <1> QED
    BY <1>1, <1>2, <1>3

LEMMA CountInvariance == Spec => [](IInv /\ CountInv)
  <1>1. IInv /\ CountInv /\ [Next]_vars => CountInv'
    BY WorkCounts, OtherCounts DEF Next, IInv
  <1> QED
    BY <1>1, InitCountInv, Invariance, PTL DEF Spec

\* The dashboard's state keeps its types: the percentage shown is one, no
\* process belongs to a collection that was never started, and no exit code is
\* one that the supervisor does not give (CollectionSupervisor.run).
THEOREM TypeCorrectness == Spec => []TypeOK
  <1>1. IInv /\ CountInv => TypeOK
    <2> SUFFICES ASSUME IInv, CountInv PROVE TypeOK
      OBVIOUS
    <2>2. \A shown \in Shown : shown \in 0 .. 100
      <3>1. \A shown \in {Progress(completed) : completed \in SUBSET Components} : shown \in 0 .. 100
        BY ProgressBounds
      <3>2. 0 \in 0 .. 100 /\ 100 \in 0 .. 100
        OBVIOUS
      <3> QED
        BY <3>1, <3>2 DEF Shown
    <2> USE DEF IInv, TypeInv, CountInv
    <2>1. Seen \subseteq Collections \X (1 .. Len(Plan))
      <3>1. started \in Nat /\ started <= MaxCollections
        OBVIOUS
      <3> QED
        BY <3>1, BoundAssumption DEF Seen, Collections
    <2>3. sup.collection \in 0 .. MaxCollections
      BY BoundAssumption
    <2>4. sup \in [active: BOOLEAN,
                    status: {"IDLE", "RUNNING", "COMPLETED", "FAILED", "CANCELLED", "TIMED_OUT"},
                    collection: 0 .. MaxCollections, stopKind: {"", "CANCELLED", "TIMED_OUT"},
                    component: Components \cup {"", "preparing"},
                    completed: SUBSET Components, progress: 0 .. 100]
      BY <2>2, <2>3 DEF SupervisorType, StopKinds
    <2>5. lock \in Handlers \cup {None}
      BY DEF Free, Owns
    <2> QED
      BY <2>1, <2>4, <2>5 DEF TypeOK
  <1> QED
    BY <1>1, CountInvariance, PTL

-----------------------------------------------------------------------------
(* What a collection that was cut short leaves behind *)

\* A thread on its way to record the stop of its collection: its component did
\* not end well, and what it decided is the stop.
Records(h) ==
    /\ pc[h] = "ran" /\ step[h] = 1 => result[h] # 0
    /\ pc[h] \in {"record", "finish", "reply"} => final[h] \in StopKinds
    /\ pc[h] # "recheck"

\* Whoever may terminate a process of the last collection follows a stop; a
\* process was terminated in the last collection only when it is stopped; and the
\* stop is in the metadata, or the thread at work is on its way to write it.
RecordInv ==
    /\ \A t \in Handlers \cup {Signal} :
          target[t] # None /\ target[t][1] = started => Stopped
    /\ \A h \in Handlers : pc[h] \in {"terminate", "overrun"} => Stopped
    /\ \A p \in cutShort :
          p[1] = started => Stopped /\ \A h \in Handlers : pc[h] \in AtWork => Records(h)
    /\ \A p \in cutShort :
          \/ metadata[p[1]] \in StopKinds
          \/ p[1] = started /\ \E h \in Handlers : pc[h] \in AtWork

\* A step that terminates nothing keeps it, when it leaves the records of earlier
\* collections alone and takes the thread at work further on its way.
LEMMA RecordStep ==
    ASSUME TypeInv, CountInv, RecordInv, UNCHANGED <<cutShort, started>>, Stopped => Stopped',
           \A t \in Handlers \cup {Signal} : target'[t] \in {target[t], None} \/ Stopped',
           \A h \in Handlers :
               /\ pc'[h] \in {"terminate", "overrun"} => pc'[h] = pc[h] \/ Stopped'
               /\ Stopped /\ (pc[h] \in AtWork => Records(h)) /\ pc'[h] \in AtWork => Records(h)'
               /\ Stopped /\ pc[h] \in AtWork /\ Records(h)
                     => pc'[h] \in AtWork \/ metadata'[started] \in StopKinds,
           \A c \in Collections \ {started} : metadata'[c] = metadata[c],
           (\A h \in Handlers : pc[h] \notin AtWork) => metadata' = metadata
    PROVE  RecordInv'
  <1>1. \A t \in Handlers \cup {Signal} : target'[t] # None /\ target'[t][1] = started' => Stopped'
    BY DEF RecordInv
  <1>2. \A h \in Handlers : pc'[h] \in {"terminate", "overrun"} => Stopped'
    BY DEF RecordInv
  <1>3. \A p \in cutShort' :
           p[1] = started' => Stopped' /\ \A h \in Handlers : pc'[h] \in AtWork => Records(h)'
    BY DEF RecordInv
  <1>4. ASSUME NEW p \in cutShort'
        PROVE  \/ metadata'[p[1]] \in StopKinds
               \/ p[1] = started' /\ \E h \in Handlers : pc'[h] \in AtWork
    <2>1. CASE p[1] # started
      <3>1. metadata[p[1]] \in StopKinds
        BY <1>4, <2>1 DEF RecordInv
      <3>2. p[1] \in Collections
        <4>1. p \in Seen /\ started \in Nat /\ started <= MaxCollections
          BY <1>4 DEF CountInv, TypeInv
        <4> QED
          BY <4>1, BoundAssumption DEF Seen, Collections
      <3> QED
        BY <2>1, <3>1, <3>2
    <2>2. CASE p[1] = started
      <3>1. CASE \A h \in Handlers : pc[h] \notin AtWork
        BY <1>4, <3>1 DEF RecordInv
      <3>2. ASSUME NEW h \in Handlers, pc[h] \in AtWork
            PROVE  pc'[h] \in AtWork \/ metadata'[started] \in StopKinds
        BY <1>4, <2>2, <3>2 DEF RecordInv
      <3> QED
        BY <2>2, <3>1, <3>2
    <2> QED
      BY <2>1, <2>2
  <1> QED
    BY <1>1, <1>2, <1>3, <1>4 DEF RecordInv

\* Terminating a process leaves the thread it belonged to on its way.
LEMMA CutStep ==
    ASSUME IInv, CountInv, RecordInv, NEW p, Terminate(p), p \in alive => Stopped,
           UNCHANGED <<started, metadata, step, final>>,
           \A t \in Handlers \cup {Signal} : target'[t] \in {target[t], None},
           \A h \in Handlers :
               \/ pc'[h] = pc[h] /\ result'[h] = result[h]
               \/ pc[h] \in Running /\ pc'[h] \in {"wait", "reap"}
               \/ pc[h] \in Outside /\ pc'[h] \in Outside
    PROVE  RecordInv'
  <1>1. UNCHANGED sup /\ cutShort' = cutShort \cup (alive \cap {p})
    BY DEF Terminate
  <1>2. \A h \in Handlers :
           /\ pc[h] \in AtWork <=> pc'[h] \in AtWork
           /\ pc[h] \in AtWork /\ Records(h) => Records(h)'
           /\ pc'[h] \in {"terminate", "overrun"} => pc'[h] = pc[h]
    BY DEF Records, AtWork, Collecting, Running, Outside
  <1>3. CASE cutShort' = cutShort
    <2>1. Stopped <=> Stopped'
      BY <1>1 DEF Stopped
    <2>2. \A t \in Handlers \cup {Signal} : target'[t] # None /\ target'[t][1] = started => Stopped'
      BY <2>1 DEF RecordInv
    <2>3. \A h \in Handlers : pc'[h] \in {"terminate", "overrun"} => Stopped'
      BY <1>2, <2>1 DEF RecordInv
    <2>4. \A q \in cutShort :
             q[1] = started => Stopped' /\ \A h \in Handlers : pc'[h] \in AtWork => Records(h)'
      BY <1>2, <2>1 DEF RecordInv
    <2>5. \A q \in cutShort :
             \/ metadata[q[1]] \in StopKinds
             \/ q[1] = started /\ \E h \in Handlers : pc'[h] \in AtWork
      BY <1>2 DEF RecordInv
    <2> QED
      BY <1>3, <2>2, <2>3, <2>4, <2>5 DEF RecordInv
  <1>4. CASE cutShort' # cutShort
    <2>1. p \in alive /\ Stopped /\ Stopped'
      BY <1>1, <1>4 DEF Stopped
    <2>2. PICK h \in Handlers : Owns(h) /\ pc[h] \in Running /\ p = Process(h)
      BY <2>1 DEF IInv, Free, Owns
    <2>3. pc[h] \in AtWork /\ p[1] = started
      BY <2>2, OwnSeen DEF IInv, Running, AtWork, Collecting
    <2>4. \A g \in Handlers : pc[g] \in AtWork => g = h
      BY <2>2 DEF Owns, Outside, AtWork, Collecting
    <2>5. \A g \in Handlers : pc'[g] \in AtWork => Records(g)'
      <3>1. Records(h)
        BY <2>2 DEF Running, Records
      <3>2. Records(h)'
        BY <1>2, <2>3, <3>1
      <3> QED
        BY <1>2, <2>4, <3>2
    <2>6. \A q \in cutShort' : q \in cutShort \/ q = p
      BY <1>1
    <2>7. \A t \in Handlers \cup {Signal} : target'[t] # None /\ target'[t][1] = started => Stopped'
      BY <2>1
    <2>8. \A q \in cutShort' :
             \/ metadata[q[1]] \in StopKinds
             \/ q[1] = started /\ \E g \in Handlers : pc'[g] \in AtWork
      BY <1>2, <2>3, <2>6 DEF RecordInv
    <2> QED
      BY <2>1, <2>5, <2>7, <2>8 DEF RecordInv
  <1> QED
    BY <1>3, <1>4

\* A component's run: what a stop leaves of it is an exit code that is not 0.
LEMMA RunRecords ==
    ASSUME IInv, CountInv, RecordInv, NEW h \in Handlers, Run(h)
    PROVE  RecordInv'
  <1>0. /\ pc \in [Handlers -> Outside \cup Inside] /\ result \in [Handlers -> {0, 1, 124, 127, 130}]
        /\ step \in [Handlers -> 1 .. Len(Plan)] /\ SupervisorType /\ TypeInv
    BY DEF IInv, TypeInv, CountInv
  <1>1. CASE RunTerminate(h) \/ RunKill(h)
    <2>1. /\ Terminate(Process(h)) /\ UNCHANGED <<started, metadata, step, final, target>>
          /\ pc[h] \in {"terminate", "overrun"}
      BY <1>1 DEF RunTerminate, RunKill, Goto
    <2>2. \A g \in Handlers :
             \/ pc'[g] = pc[g] /\ result'[g] = result[g]
             \/ pc[g] \in Running /\ pc'[g] \in {"wait", "reap"}
      BY <1>0, <1>1 DEF RunTerminate, RunKill, Goto, Running
    <2>3. Stopped
      BY <2>1 DEF RecordInv
    <2> QED
      BY <2>1, <2>2, <2>3, CutStep
  <1>2. CASE ~ RunTerminate(h) /\ ~ RunKill(h)
    <2>0. RunEnter(h) \/ RunSpawn(h) \/ RunRegister(h) \/ RunReturns(h) \/ RunTimesOut(h)
             \/ RunReap(h) \/ RunJudge(h)
      BY <1>2 DEF Run
    <2>1. UNCHANGED <<started, metadata, target, step, final>>
      BY <2>0 DEF RunEnter, RunSpawn, RunRegister, RunReturns, RunTimesOut, RunReap, RunJudge
    <2>2. cutShort' = cutShort /\ (Stopped => Stopped')
      BY <1>0, <2>0
      DEF RunEnter, RunRefused, RunAdmitted, MarkStop, RunSpawn, Spawn, RunRegister, Register,
          RunReturns, RunTimesOut, ComponentTimedOut, RunReap, Complete, RunJudge, supervisorVars,
          Stopped, SupervisorType
    <2>3. \A g \in Handlers \ {h} : pc'[g] = pc[g] /\ result'[g] = result[g]
      BY <1>0, <2>0
      DEF Goto, RunEnter, RunSpawn, RunRegister, RunReturns, RunTimesOut, RunReap, RunJudge
    <2>4. /\ pc[h] \in AtWork /\ pc'[h] \in AtWork
          /\ pc'[h] \notin {"record", "finish", "reply", "recheck"}
      BY <1>0, <2>0
      DEF Goto, RunEnter, RunSpawn, RunRegister, RunReturns, RunTimesOut, RunReap, RunJudge,
          AtWork, Collecting
    <2>5. pc'[h] \in {"terminate", "overrun"} => Stopped'
      <3>1. CASE RunRegister(h)
        BY <1>0, <3>1 DEF RunRegister, Register, Goto, Stopped
      <3>2. CASE RunTimesOut(h)
        BY <1>0, <3>2 DEF RunTimesOut, ComponentTimedOut, MarkStop, Stopped, SupervisorType
      <3>3. CASE RunEnter(h) \/ RunSpawn(h) \/ RunReturns(h) \/ RunReap(h) \/ RunJudge(h)
        BY <1>0, <3>3 DEF RunEnter, RunSpawn, RunReturns, RunReap, RunJudge, Goto
      <3> QED
        BY <2>0, <3>1, <3>2, <3>3
    <2>6. Stopped /\ pc'[h] = "ran" => result'[h] # 0
      BY <1>0, <2>0
      DEF Goto, RunEnter, RunSpawn, RunRegister, RunReturns, RunTimesOut, RunReap, RunJudge,
          StoppedResult
    <2>7. Stopped => Records(h)'
      BY <2>4, <2>6 DEF Records
    <2>8. \A g \in Handlers \ {h} : Records(g) => Records(g)'
      BY <2>1, <2>3 DEF Records
    <2> QED
      BY <1>0, <2>1, <2>2, <2>3, <2>4, <2>5, <2>7, <2>8, RecordStep
  <1> QED
    BY <1>1, <1>2

\* The rest of a request: the stop is what is decided, and what is written.
LEMMA WorkRecords ==
    ASSUME IInv, CountInv, RecordInv, ~ Faults, NEW h \in Handlers, Work(h), ~ KillTarget(h)
    PROVE  RecordInv'
  <1>0. /\ pc \in [Handlers -> Outside \cup Inside] /\ result \in [Handlers -> {0, 1, 124, 127, 130}]
        /\ step \in [Handlers -> 1 .. Len(Plan)] /\ SupervisorType /\ TypeInv
        /\ final \in [Handlers -> {"COMPLETED", "FAILED"} \cup StopKinds]
        /\ metadata \in [Collections -> {"absent", "RUNNING", "COMPLETED", "FAILED"} \cup StopKinds]
        /\ sup.collection = started
    BY DEF IInv, TypeInv, CountInv
  <1>1. Owns(h)
    BY WorkerOwns
  <1>2. Stopped => sup.stopKind \in StopKinds
    BY <1>0 DEF Stopped, SupervisorType
  <1>3. CASE Run(h)
    BY <1>3, RunRecords
  <1>4. CASE StartCollection(h)
    <2>1. ~ sup.active /\ pc[h] = "form"
      BY <1>1, <1>4 DEF StartCollection, Goto, Owns, Collecting, Ending
    <2>2. /\ started' = started + 1 /\ pc' = [pc EXCEPT ![h] = "enter"]
          /\ UNCHANGED <<cutShort, metadata, target>>
      BY <1>4, <2>1 DEF StartCollection, Goto, StartSupervisor
    <2>3. \A g \in Handlers : pc[g] \notin AtWork /\ pc'[g] \notin {"terminate", "overrun"}
      BY <1>0, <1>1, <2>1, <2>2 DEF Owns, Outside, AtWork, Collecting
    <2>4. \A p \in Seen : p[1] # started'
      BY <1>0, <2>2 DEF Seen, TypeInv
    <2>5. \A t \in Handlers \cup {Signal} : target'[t] \in Seen \cup {None}
      BY <2>2 DEF CountInv
    <2>6. \A p \in cutShort' : p[1] # started' /\ metadata'[p[1]] \in StopKinds
      BY <2>2, <2>3, <2>4 DEF CountInv, RecordInv
    <2> QED
      BY <2>3, <2>4, <2>5, <2>6 DEF RecordInv
  <1>5. CASE ~ Run(h) /\ ~ StartCollection(h)
    <2>0. \/ Validate(h) \/ RejectForm(h) \/ PreflightEnds(h) \/ ComponentEnds(h) \/ Control(h)
          \/ Record(h) \/ Recheck(h) \/ Finish(h) \/ Reply(h) \/ Except(h) \/ Finally(h)
      BY <1>5 DEF Work, Raise
    <2>1. /\ UNCHANGED <<started, target>>
          /\ UNCHANGED supervisorVars \/ \E status : FinishSupervisor(status)
      BY <2>0
      DEF Validate, RejectForm, PreflightEnds, ComponentEnds, Control, Record, Recheck, Finish,
          Reply, Except, Finally
    <2>2. cutShort' = cutShort /\ sup'.stopKind = sup.stopKind
      BY <1>0, <2>1 DEF FinishSupervisor, supervisorVars, SupervisorType
    <2>3. \A g \in Handlers \ {h} :
             /\ pc'[g] = pc[g] /\ result'[g] = result[g]
             /\ step'[g] = step[g] /\ final'[g] = final[g]
      BY <1>0, <2>0
      DEF Goto, Validate, RejectForm, PreflightEnds, ComponentEnds, Control, Record, Recheck, Finish,
          Reply, Except, Finally
    <2>4. pc'[h] \notin {"terminate", "overrun"} /\ (pc'[h] \in AtWork => pc[h] \in AtWork)
      BY <1>0, <2>0
      DEF Goto, Validate, RejectForm, PreflightEnds, ComponentEnds, Control, Record, Recheck, Finish,
          Reply, Except, Finally, AtWork, Collecting
    <2>5. \/ metadata' = metadata
          \/ pc[h] \in AtWork /\ \E status : WriteMetadata(status)
      BY <2>0
      DEF Goto, Validate, RejectForm, PreflightEnds, ComponentEnds, Control, Record, Recheck, Finish,
          Reply, Except, Finally, AtWork, Collecting
    <2>6. \A c \in Collections \ {started} : metadata'[c] = metadata[c]
      BY <1>0, <2>5 DEF WriteMetadata
    <2>7. ASSUME Stopped, pc[h] \in AtWork, Records(h)
          PROVE  /\ pc'[h] \in AtWork => Records(h)'
                 /\ pc'[h] \in AtWork \/ metadata'[started] \in StopKinds
      <3>0. started \in Collections
        BY <1>0, <2>7, OwnSeen
      <3>1. CASE PreflightEnds(h)
        <4>1. pc'[h] = "finally" /\ WriteMetadata(sup.stopKind)
          BY <1>0, <2>7, <3>1 DEF PreflightEnds, Goto, Records
        <4> QED
          BY <1>0, <1>2, <2>7, <3>0, <4>1 DEF WriteMetadata, AtWork, Collecting
      <3>2. CASE ComponentEnds(h)
        BY <1>0, <3>2 DEF ComponentEnds, Goto, Records, AtWork, Collecting
      <3>3. CASE Control(h)
        BY <1>0, <1>2, <2>7, <3>3 DEF Control, Outcome, Goto, Records, AtWork, Collecting
      <3>4. CASE Record(h)
        BY <1>0, <2>7, <3>4 DEF Record, Goto, Records, AtWork, Collecting, StopKinds
      <3>5. CASE Finish(h)
        BY <1>0, <2>7, <3>5 DEF Finish, Goto, Records, AtWork, Collecting
      <3>6. CASE Reply(h)
        <4>1. WriteMetadata(final[h]) /\ final[h] \in StopKinds
          BY <2>7, <3>6 DEF Reply, Goto, Records
        <4>2. pc'[h] \notin AtWork
          BY <1>0, <3>6 DEF Reply, Goto, AtWork, Collecting
        <4> QED
          BY <1>0, <3>0, <4>1, <4>2 DEF WriteMetadata
      <3>7. ~ (Validate(h) \/ RejectForm(h) \/ Recheck(h) \/ Except(h) \/ Finally(h))
        BY <2>7
        DEF Validate, RejectForm, Recheck, Except, Finally, Goto, Records, AtWork, Collecting
      <3> QED
        BY <2>0, <3>1, <3>2, <3>3, <3>4, <3>5, <3>6, <3>7
    <2>8. \A g \in Handlers \ {h} : Records(g) => Records(g)'
      BY <2>3 DEF Records
    <2>9. Stopped => Stopped'
      BY <2>2 DEF Stopped
    <2>10. ASSUME NEW g \in Handlers
           PROVE  /\ pc'[g] \in {"terminate", "overrun"} => pc'[g] = pc[g] \/ Stopped'
                  /\ Stopped /\ (pc[g] \in AtWork => Records(g)) /\ pc'[g] \in AtWork => Records(g)'
                  /\ Stopped /\ pc[g] \in AtWork /\ Records(g)
                        => pc'[g] \in AtWork \/ metadata'[started] \in StopKinds
      <3>1. CASE g = h
        BY <2>4, <2>7, <3>1
      <3>2. CASE g # h
        BY <2>3, <2>8, <3>2
      <3> QED
        BY <3>1, <3>2
    <2>11. (\A g \in Handlers : pc[g] \notin AtWork) => metadata' = metadata
      BY <2>5
    <2> QED
      BY <1>0, <2>1, <2>2, <2>6, <2>9, <2>10, <2>11, RecordStep
  <1> QED
    BY <1>3, <1>4, <1>5

\* A canceller marks the stop in the same block in which it reads the process.
LEMMA CancelRecords ==
    ASSUME IInv, CountInv, RecordInv, NEW t \in Handlers \cup {Signal},
           CancelUnderLock, target' = [target EXCEPT ![t] = CancelTarget],
           UNCHANGED <<step, result, final, metadata, started>>,
           \A h \in Handlers : pc'[h] = pc[h] \/ (pc[h] \notin AtWork /\ pc'[h] = "kill")
    PROVE  RecordInv'
  <1>0. SupervisorType /\ TypeInv /\ target \in [Handlers \cup {Signal} -> Seen \cup {None}]
    BY DEF IInv, TypeInv, CountInv
  <1>1. cutShort' = cutShort /\ (Stopped => Stopped') /\ (sup.active => Stopped')
    BY <1>0 DEF CancelUnderLock, MarkStop, Stopped, SupervisorType
  <1>2. \A u \in Handlers \cup {Signal} : target'[u] \in {target[u], None} \/ Stopped'
    BY <1>0, <1>1 DEF CancelTarget
  <1>3. \A h \in Handlers :
           /\ pc'[h] \in {"terminate", "overrun"} => pc'[h] = pc[h]
           /\ pc'[h] \in AtWork <=> pc[h] \in AtWork
           /\ pc[h] \in AtWork /\ Records(h) => Records(h)'
    BY DEF Records, AtWork, Collecting
  <1>4. ASSUME NEW h \in Handlers
        PROVE  /\ pc'[h] \in {"terminate", "overrun"} => pc'[h] = pc[h] \/ Stopped'
               /\ Stopped /\ (pc[h] \in AtWork => Records(h)) /\ pc'[h] \in AtWork => Records(h)'
               /\ Stopped /\ pc[h] \in AtWork /\ Records(h)
                     => pc'[h] \in AtWork \/ metadata'[started] \in StopKinds
    BY <1>3
  <1> QED
    BY <1>0, <1>1, <1>2, <1>4, RecordStep

LEMMA NextRecordInv ==
    ASSUME IInv, CountInv, RecordInv, ~ Faults, [Next]_vars
    PROVE  RecordInv'
  <1>0. pc \in [Handlers -> Outside \cup Inside] /\ target \in [Handlers \cup {Signal} -> Seen \cup {None}]
    BY DEF IInv, TypeInv, CountInv
  <1>1. ASSUME NEW h \in Handlers, PostCancel(h) PROVE RecordInv'
    <2>1. /\ CancelUnderLock /\ target' = [target EXCEPT ![h] = CancelTarget]
          /\ UNCHANGED <<step, result, final, metadata, started>>
          /\ \A g \in Handlers : pc'[g] = pc[g] \/ (pc[g] \notin AtWork /\ pc'[g] = "kill")
      BY <1>0, <1>1 DEF PostCancel, Goto, AtWork, Collecting
    <2> QED
      BY <2>1, CancelRecords
  <1>2. CASE Sigterm \/ Shutdown
    <2>1. /\ CancelUnderLock /\ target' = [target EXCEPT ![Signal] = CancelTarget]
          /\ UNCHANGED <<step, result, final, metadata, started, pc>>
      BY <1>2 DEF Sigterm, Shutdown, SignalCancel
    <2> QED
      BY <2>1, CancelRecords
  <1>3. ASSUME NEW t \in Handlers \cup {Signal},
               Terminate(target[t]), target' = [target EXCEPT ![t] = None],
               UNCHANGED <<step, result, final, metadata, started>>,
               \A g \in Handlers : pc'[g] = pc[g] \/ (pc[g] \in Outside /\ pc'[g] \in Outside)
        PROVE  RecordInv'
    <2>1. target[t] \in alive => Stopped
      <3>1. ASSUME target[t] \in alive PROVE target[t] # None /\ target[t][1] = started
        <4>1. PICK h \in Handlers : Owns(h) /\ pc[h] \in Running /\ target[t] = Process(h)
          BY <3>1 DEF IInv, Free, Owns
        <4>2. Process(h) \in Seen /\ Process(h)[1] = started
          BY <4>1, OwnSeen DEF IInv, Running, AtWork, Collecting
        <4>3. None \notin Seen
          BY ThreadAssumption DEF IInv, TypeInv, Seen
        <4> QED
          BY <4>1, <4>2, <4>3
      <3> QED
        BY <3>1 DEF RecordInv
    <2>2. \A u \in Handlers \cup {Signal} : target'[u] \in {target[u], None}
      BY <1>0, <1>3
    <2> QED
      BY <1>3, <2>1, <2>2, CutStep
  <1>4. ASSUME NEW h \in Handlers, KillTarget(h) PROVE RecordInv'
    <2>1. /\ Terminate(target[h]) /\ target' = [target EXCEPT ![h] = None]
          /\ UNCHANGED <<step, result, final, metadata, started>>
          /\ \A g \in Handlers : pc'[g] = pc[g] \/ (pc[g] \in Outside /\ pc'[g] \in Outside)
      BY <1>0, <1>4 DEF KillTarget, Goto, Outside
    <2> QED
      BY <1>3, <2>1
  <1>5. CASE LeaveServe \/ Close
    <2>1. /\ Terminate(target[Signal]) /\ target' = [target EXCEPT ![Signal] = None]
          /\ UNCHANGED <<step, result, final, metadata, started, pc>>
      BY <1>5 DEF LeaveServe, Close, SignalKill
    <2> QED
      BY <1>3, <2>1
  <1>6. ASSUME NEW h \in Handlers, PostValidate(h) \/ PostCollect(h) PROVE RecordInv'
    <2>1. /\ UNCHANGED <<sup, cutShort, started, metadata, target, step, result>>
          /\ \A g \in Handlers :
                \/ pc'[g] = pc[g] /\ final'[g] = final[g]
                \/ pc'[g] \in {"idle", "validate", "form"} /\ pc[g] = "idle"
      BY <1>0, <1>6 DEF PostValidate, PostCollect, TryLock, Goto, supervisorVars, IInv, TypeInv
    <2>2. \A g \in Handlers :
             /\ pc'[g] \in {"terminate", "overrun"} => pc'[g] = pc[g]
             /\ pc'[g] \in AtWork <=> pc[g] \in AtWork
             /\ pc[g] \in AtWork /\ Records(g) => Records(g)'
      BY <2>1 DEF Records, AtWork, Collecting
    <2>3. Stopped <=> Stopped'
      BY <2>1 DEF Stopped
    <2> QED
      BY <2>1, <2>2, <2>3, RecordStep DEF IInv
  <1>7. CASE ProcessEnds \/ DeadlinePasses \/ UNCHANGED vars
    <2>1. UNCHANGED <<sup, cutShort, started, metadata, target, step, result, pc, final>>
      BY <1>7 DEF ProcessEnds, Exit, DeadlinePasses, Expire, handlerVars, vars, supervisorVars
    <2> QED
      BY <2>1 DEF RecordInv, Records, Stopped
  <1>8. ASSUME NEW h \in Handlers, Work(h), ~ KillTarget(h) PROVE RecordInv'
    BY <1>8, WorkRecords
  <1> QED
    BY <1>1, <1>2, <1>4, <1>5, <1>6, <1>7, <1>8 DEF Next, Arrive

\* As long as no write raises, a collection one of whose components was
\* terminated, by a canceller, a signal or its own time-out, is recorded as
\* stopped once LOCK is free: no thread reads the stop before the termination and
\* writes its verdict after it (assessment_dashboard.py, do_POST).
THEOREM TerminationsAreRecorded == ~ Faults /\ Spec => []CutShortIsRecorded
  <1>1. Init => RecordInv
    BY DEF Init, SupervisorInit, RecordInv
  <1>2. ~ Faults /\ IInv /\ CountInv /\ RecordInv /\ [Next]_vars => RecordInv'
    BY NextRecordInv
  <1>3. IInv /\ CountInv /\ RecordInv => CutShortIsRecorded
    <2> SUFFICES ASSUME IInv, RecordInv, lock = None,
                        NEW p \in cutShort
                 PROVE  metadata[p[1]] \in StopKinds
      BY DEF CutShortIsRecorded, StopKinds
    <2>1. \A h \in Handlers : pc[h] \notin AtWork
      BY ThreadAssumption DEF IInv, Free, Owns, Outside, AtWork, Collecting
    <2> QED
      BY <2>1 DEF RecordInv
  <1>4. CASE ~ Faults
    BY <1>1, <1>2, <1>3, <1>4, CountInvariance, PTL DEF Spec
  <1>5. CASE Faults
    BY <1>5
  <1> QED
    BY <1>4, <1>5

-----------------------------------------------------------------------------
(* The inventory *)

Phases == {"free", "admit", "asleep", "asking", "listed", "failed"}
Reasons == {"", "requests", "duration", "bytes"}
States == {"none", "AVAILABLE", "UNAVAILABLE"}

CallType ==
    [phase : Phases, target : {"none", "namespaced", "cluster"} \cup Deep \cup Others,
     attempt : Nat, wake : Nat]

BudgetType == [requests : Nat, bytes : Nat, reason : Reasons, next : Nat, started : Nat]

InventoryTypes ==
    /\ now \in Nat /\ asked \in Nat
    /\ stage \in Stages /\ cluster \in Clusters /\ resume \in BOOLEAN /\ steady \in BOOLEAN
    /\ budget \in BudgetType
    /\ call \in [Threads -> CallType]
    /\ served \in [state : {"UNKNOWN", "AVAILABLE", "UNAVAILABLE"},
                   names : SUBSET (Deep \cup Others \cup Namespaced)]
    /\ coverage \in [Deep -> States \cup {"N/A", "PARTIAL"}]
    /\ entries \in [Others -> States]
    /\ file \in [Deep -> {Absent, Nowhere, Empty} \cup {ListOf(c) : c \in Clusters}]

\* A call on its way: a request for a slot, the sleep until it, the reply.
Calls(t) == Admit(t) \/ Ask(t) \/ Respond(t)

-----------------------------------------------------------------------------
(* Types *)

LEMMA InitTypes == InventoryInit => InventoryTypes
  <1> SUFFICES ASSUME InventoryInit PROVE InventoryTypes
    OBVIOUS
  <1>1. now \in Nat /\ asked \in Nat /\ stage \in Stages /\ cluster \in Clusters
          /\ resume \in BOOLEAN /\ steady \in BOOLEAN
    BY DEF InventoryInit, Stages
  <1>2. budget \in BudgetType
    BY DEF InventoryInit, BudgetType, Reasons
  <1>3. call \in [Threads -> CallType]
    BY DEF InventoryInit, NoCall, CallType, Phases
  <1>4. /\ served \in [state : {"UNKNOWN", "AVAILABLE", "UNAVAILABLE"},
                       names : SUBSET (Deep \cup Others \cup Namespaced)]
        /\ coverage \in [Deep -> States \cup {"N/A", "PARTIAL"}]
        /\ entries \in [Others -> States]
        /\ file \in [Deep -> {Absent, Nowhere, Empty} \cup {ListOf(c) : c \in Clusters}]
    BY DEF InventoryInit, States
  <1> QED
    BY <1>1, <1>2, <1>3, <1>4 DEF InventoryTypes

\* A new session, or the end of one that was killed, starts from nothing.
LEMMA FreshTypes ==
    ASSUME InventoryTypes, Fresh
    PROVE  /\ asked' \in Nat /\ steady' \in BOOLEAN /\ budget' \in BudgetType
           /\ served' \in [state : {"UNKNOWN", "AVAILABLE", "UNAVAILABLE"},
                           names : SUBSET (Deep \cup Others \cup Namespaced)]
           /\ coverage' \in [Deep -> States \cup {"N/A", "PARTIAL"}]
           /\ entries' \in [Others -> States]
  BY DEF InventoryTypes, Fresh, FreshBudget, BudgetType, Reasons, States

\* The budget is touched by a reservation, a refusal and a reply.
LEMMA BudgetUpdates ==
    ASSUME InventoryTypes
    PROVE  /\ Refuse \in Reasons
           /\ [budget EXCEPT !.reason = Refuse] \in BudgetType
           /\ [budget EXCEPT !.reason = Refuse].started = budget.started
           /\ [budget EXCEPT !.reason = Refuse].next = budget.next
           /\ [budget EXCEPT !.reason = Refuse].requests = budget.requests
           /\ Reserve(budget) \in BudgetType
           /\ Reserve(budget).started = budget.started
           /\ Reserve(budget).reason = budget.reason
           /\ Reserve(budget).next = Later(now, budget.next) + Delay
           /\ Reserve(budget).requests = budget.requests + 1
           /\ Later(now, budget.next) \in Nat
           /\ \A size \in {0, 1} :
                 /\ Counted(size) \in BudgetType
                 /\ Counted(size).started = budget.started
                 /\ Counted(size).next = budget.next
                 /\ Counted(size).requests = budget.requests
                 /\ Counted(size).reason \in {budget.reason, "bytes"}
                 /\ budget.reason # "" => Counted(size).reason = budget.reason
  <1>0. now \in Nat /\ budget \in BudgetType /\ Delay \in Nat /\ MaxBytes \in Nat
    BY InventoryAssumption DEF InventoryTypes
  <1>1. Refuse \in Reasons
    BY <1>0 DEF Refuse, Exhausted, BudgetType, Reasons
  <1>2. Later(now, budget.next) \in Nat /\ Later(now, budget.next) + Delay \in Nat
    BY <1>0 DEF Later, BudgetType
  <1>3. ASSUME NEW size \in {0, 1}
        PROVE  /\ Counted(size) \in BudgetType
               /\ Counted(size).started = budget.started
               /\ Counted(size).next = budget.next
               /\ Counted(size).requests = budget.requests
               /\ Counted(size).reason \in {budget.reason, "bytes"}
               /\ budget.reason # "" => Counted(size).reason = budget.reason
    <2>1. PICK bytes \in Nat, reason \in Reasons :
             /\ Counted(size) = [budget EXCEPT !.bytes = bytes, !.reason = reason]
             /\ reason \in {budget.reason, "bytes"} /\ (budget.reason # "" => reason = budget.reason)
      <3>1. budget.bytes + size \in Nat /\ budget.reason \in Reasons
        BY <1>0 DEF BudgetType
      <3>2. \E reason \in {budget.reason, "bytes"} :
               /\ Counted(size) = [budget EXCEPT !.bytes = budget.bytes + size, !.reason = reason]
               /\ budget.reason # "" => reason = budget.reason
        BY DEF Counted
      <3> QED
        BY <3>1, <3>2 DEF Reasons
    <2> QED
      BY <1>0, <2>1 DEF BudgetType
  <1>4. /\ [budget EXCEPT !.reason = Refuse] \in BudgetType
        /\ [budget EXCEPT !.reason = Refuse].started = budget.started
        /\ [budget EXCEPT !.reason = Refuse].next = budget.next
        /\ [budget EXCEPT !.reason = Refuse].requests = budget.requests
    BY <1>0, <1>1 DEF BudgetType
  <1>5. /\ Reserve(budget) \in BudgetType
        /\ Reserve(budget).started = budget.started
        /\ Reserve(budget).reason = budget.reason
        /\ Reserve(budget).next = Later(now, budget.next) + Delay
        /\ Reserve(budget).requests = budget.requests + 1
    <2>1. budget.requests + 1 \in Nat
      BY <1>0 DEF BudgetType
    <2>2. Reserve(budget) = [budget EXCEPT !.requests = budget.requests + 1,
                                           !.next = Later(now, budget.next) + Delay]
      BY DEF Reserve
    <2> QED
      BY <1>0, <1>2, <2>1, <2>2 DEF BudgetType
  <1> QED
    BY <1>1, <1>2, <1>3, <1>4, <1>5

\* What a step of a call leaves alone, and what it gives the call.
LEMMA CallStep ==
    ASSUME InventoryTypes, NEW t \in Threads, Calls(t)
    PROVE  /\ UNCHANGED <<control, results, disk, reused, steady>>
           /\ call[t].phase # "free" /\ call'[t].phase # "free"
           /\ call'[t].target = call[t].target
           /\ \A u \in Threads \ {t} : call'[u] = call[u]
           /\ call' \in [Threads -> CallType]
           /\ budget' \in BudgetType /\ budget'.started = budget.started
           /\ asked' \in Nat
  <1>0. /\ asked \in Nat /\ budget \in BudgetType /\ call \in [Threads -> CallType]
        /\ call[t] \in CallType /\ call[t].attempt + 1 \in Nat
    BY DEF InventoryTypes, CallType
  <1>1. /\ UNCHANGED <<control, results, disk, reused, steady>>
        /\ asked' \in {asked, asked + 1} /\ call[t].phase # "free"
    BY DEF Calls, Admit, Ask, Respond, history
  <1>2. budget' \in BudgetType /\ budget'.started = budget.started
    BY <1>0, BudgetUpdates DEF Calls, Admit, Ask, Respond
  <1>3. PICK c \in CallType :
           /\ c.phase # "free" /\ c.target = call[t].target
           /\ call' = [call EXCEPT ![t] = c]
    <2>1. CASE Admit(t)
      <3>1. \/ call' = [call EXCEPT ![t] = [call[t] EXCEPT !.phase = "failed"]]
            \/ call' = [call EXCEPT ![t] = [call[t] EXCEPT !.phase = "asleep",
                                                        !.wake = Later(now, budget.next)]]
        BY <2>1 DEF Admit, Returned
      <3>2. "failed" \in Phases /\ "asleep" \in Phases /\ Later(now, budget.next) \in Nat
        BY BudgetUpdates DEF Phases
      <3>3. CASE call' = [call EXCEPT ![t] = [call[t] EXCEPT !.phase = "failed"]]
        <4> DEFINE d == [call[t] EXCEPT !.phase = "failed"]
        <4>1. d \in CallType /\ d.phase = "failed" /\ d.target = call[t].target
          BY <1>0, <3>2 DEF CallType
        <4> QED
          BY <3>3, <4>1
      <3>4. CASE call' = [call EXCEPT ![t] = [call[t] EXCEPT !.phase = "asleep",
                                                        !.wake = Later(now, budget.next)]]
        <4> DEFINE d == [call[t] EXCEPT !.phase = "asleep", !.wake = Later(now, budget.next)]
        <4>1. d \in CallType /\ d.phase = "asleep" /\ d.target = call[t].target
          BY <1>0, <3>2 DEF CallType
        <4> QED
          BY <3>4, <4>1
      <3> QED
        BY <3>1, <3>3, <3>4
    <2>2. CASE Ask(t)
      <3>1. call' = [call EXCEPT ![t] = [call[t] EXCEPT !.phase = "asking", !.wake = 0]]
        BY <2>2 DEF Ask
      <3> DEFINE d == [call[t] EXCEPT !.phase = "asking", !.wake = 0]
      <3>2. "asking" \in Phases /\ 0 \in Nat
        BY DEF Phases
      <3>3. d \in CallType /\ d.phase = "asking" /\ d.target = call[t].target
        BY <1>0, <3>2 DEF CallType
      <3> QED
        BY <3>1, <3>3
    <2>3. CASE Respond(t)
      <3>1. PICK outcome \in {"listed", "failed", "transient"} :
               call' = IF outcome = "transient" /\ call[t].attempt < Retries
                       THEN [call EXCEPT ![t] = Again(@)]
                       ELSE Returned(t, IF outcome = "listed" THEN "listed" ELSE "failed")
        BY <2>3 DEF Respond
      <3>2. {"admit", "listed", "failed"} \subseteq Phases
        BY DEF Phases
      <3>3. CASE outcome = "transient" /\ call[t].attempt < Retries
        <4> DEFINE d == Again(call[t])
        <4>1. d \in CallType /\ d.phase = "admit" /\ d.target = call[t].target
          BY <1>0, <3>2 DEF CallType, Again
        <4>2. call' = [call EXCEPT ![t] = d]
          BY <3>1, <3>3
        <4> QED
          BY <4>1, <4>2
      <3>4. ASSUME NEW phase \in {"listed", "failed"}, call' = Returned(t, phase)
            PROVE  \E c \in CallType :
                      /\ c.phase # "free" /\ c.target = call[t].target
                      /\ call' = [call EXCEPT ![t] = c]
        <4> DEFINE d == [call[t] EXCEPT !.phase = phase]
        <4>1. d \in CallType /\ d.phase = phase /\ d.target = call[t].target
          BY <1>0, <3>2, <3>4 DEF CallType
        <4>2. call' = [call EXCEPT ![t] = d]
          BY <3>4 DEF Returned
        <4> QED
          BY <3>4, <4>1, <4>2
      <3> QED
        BY <3>1, <3>3, <3>4
    <2> QED
      BY <2>1, <2>2, <2>3 DEF Calls
  <1> QED
    BY <1>0, <1>1, <1>2, <1>3

\* A call that is given or taken back.
LEMMA CallsGiven ==
    ASSUME InventoryTypes
    PROVE  /\ NoCall \in CallType /\ NoCall.phase = "free"
           /\ \A r \in {"namespaced", "cluster"} \cup Deep \cup Others :
                 /\ Call(r) \in CallType
                 /\ Call(r).phase = "admit" /\ Call(r).target = r
  BY DEF NoCall, Call, CallType, Phases

\* Every step keeps the types.
LEMMA NextTypes ==
    ASSUME InventoryTypes, [InventoryNext]_inventoryVars
    PROVE  InventoryTypes'
  <1>0. /\ Main \in Threads /\ Workers \subseteq Threads /\ call \in [Threads -> CallType]
        /\ now + 1 \in Nat
    BY DEF Threads, InventoryTypes
  <1>1. ASSUME NEW t \in Threads, Calls(t) PROVE InventoryTypes'
    BY <1>1, CallStep DEF control, results, disk, InventoryTypes
  <1>2. CASE StartSession
    <2>1. Fresh /\ UNCHANGED <<now, disk>> /\ stage' = "discovery"
      BY <1>2 DEF StartSession
    <2>2. cluster' \in Clusters /\ resume' \in BOOLEAN
      BY <1>2 DEF StartSession
    <2>3. call' \in [Threads -> CallType]
      BY <1>0, <1>2, CallsGiven DEF StartSession
    <2> QED
      BY <2>1, <2>2, <2>3, FreshTypes DEF InventoryTypes, Stages, disk
  <1>3. CASE Discover
    <2>1. UNCHANGED <<now, cluster, resume, budget, coverage, entries, disk, history>>
      BY <1>3 DEF Discover
    <2>2. stage' \in Stages
      BY <1>3 DEF Discover, InventoryTypes, Stages
    <2>3. call' \in [Threads -> CallType]
      BY <1>0, <1>3, CallsGiven DEF Discover
    <2>4. served' \in [state : {"UNKNOWN", "AVAILABLE", "UNAVAILABLE"},
                      names : SUBSET (Deep \cup Others \cup Namespaced)]
      <3>1. CASE call[Main].phase = "listed"
        <4>1. PICK names \in SUBSET Scope(call[Main].target) : served' = Served(names)
          BY <1>3, <3>1 DEF Discover
        <4>2. names \subseteq Deep \cup Others \cup Namespaced
          BY DEF Scope
        <4> QED
          BY <4>1, <4>2 DEF Served, InventoryTypes
      <3>2. CASE call[Main].phase # "listed"
        BY <1>3, <3>2 DEF Discover, InventoryTypes
      <3> QED
        BY <3>1, <3>2
    <2> QED
      BY <2>1, <2>2, <2>3, <2>4 DEF InventoryTypes, disk, history
  <1>4. CASE NextDeep
    <2>1. UNCHANGED <<control, budget, served, entries, inventory, provenance, asked, steady>>
      BY <1>4 DEF NextDeep
    <2>2. PICK r \in Todo : ReuseSnapshot(r) \/ NotServed(r) \/ ListDeep(r)
      BY <1>4 DEF NextDeep
    <2>3. r \in Deep
      BY DEF Todo
    <2>4. call' \in [Threads -> CallType]
      <3>0. call \in [Threads -> CallType]
        BY DEF InventoryTypes
      <3>1. Call(r) \in CallType
        BY <2>3, CallsGiven
      <3>2. call' = call \/ call' = [call EXCEPT ![Main] = Call(r)]
        BY <2>2 DEF ReuseSnapshot, NotServed, ListDeep
      <3> QED
        BY <1>0, <3>0, <3>1, <3>2
    <2>5. coverage' \in [Deep -> States \cup {"N/A", "PARTIAL"}]
      BY <2>2, <2>3 DEF ReuseSnapshot, NotServed, ListDeep, InventoryTypes, States
    <2>6. file' \in [Deep -> {Absent, Nowhere, Empty} \cup {ListOf(c) : c \in Clusters}]
      BY <2>2, <2>3 DEF ReuseSnapshot, NotServed, ListDeep, InventoryTypes
    <2> QED
      BY <2>1, <2>4, <2>5, <2>6 DEF InventoryTypes, control
  <1>5. CASE SaveDeep
    <2>1. UNCHANGED <<control, budget, served, entries, inventory, provenance, history>>
      BY <1>5 DEF SaveDeep
    <2>2. call' \in [Threads -> CallType]
      BY <1>0, <1>5, CallsGiven DEF SaveDeep
    <2>3. coverage' \in [Deep -> States \cup {"N/A", "PARTIAL"}]
      BY <1>5 DEF SaveDeep, InventoryTypes, States
    <2>4. file' \in [Deep -> {Absent, Nowhere, Empty} \cup {ListOf(c) : c \in Clusters}]
      <3>1. PICK content \in {ListOf(cluster), Empty} :
               file' = [file EXCEPT ![call[Main].target] = content]
        BY <1>5 DEF SaveDeep
      <3>2. ListOf(cluster) \in {ListOf(c) : c \in Clusters}
        BY DEF InventoryTypes
      <3> QED
        BY <3>1, <3>2 DEF InventoryTypes
    <2> QED
      BY <2>1, <2>2, <2>3, <2>4 DEF InventoryTypes, control, history
  <1>6. CASE BeginUniversal \/ SaveInventory \/ WriteProvenance
    BY <1>6
    DEF BeginUniversal, SaveInventory, WriteProvenance, InventoryTypes, Stages, disk, results, history
  <1>7. ASSUME NEW w \in Workers, Take(w) \/ CollectOne(w) PROVE InventoryTypes'
    <2>1. UNCHANGED <<control, budget, served, coverage, disk, history>>
      BY <1>7 DEF Take, CollectOne, results
    <2>2. call' \in [Threads -> CallType]
      BY <1>0, <1>7, CallsGiven DEF Take, CollectOne, Targets
    <2>3. entries' \in [Others -> States]
      BY <1>7 DEF Take, CollectOne, results, InventoryTypes, States
    <2> QED
      BY <2>1, <2>2, <2>3 DEF InventoryTypes, control, disk, history
  <1>8. CASE Tick \/ SwitchContext \/ \E r \in Deep : Edit(r)
    BY <1>0, <1>8 DEF Tick, SwitchContext, Edit, InventoryTypes, control, disk, results, history
  <1>9. CASE Crash
    <2>1. Fresh /\ UNCHANGED <<now, cluster, resume, disk>> /\ stage' = "off"
      BY <1>9 DEF Crash
    <2>2. call' \in [Threads -> CallType]
      BY <1>9, CallsGiven DEF Crash
    <2> QED
      BY <2>1, <2>2, FreshTypes DEF InventoryTypes, Stages, disk
  <1>10. CASE UNCHANGED inventoryVars
    BY <1>10 DEF inventoryVars, control, disk, results, history, InventoryTypes
  <1> QED
    BY <1>1, <1>2, <1>3, <1>4, <1>5, <1>6, <1>7, <1>8, <1>9, <1>10 DEF InventoryNext, Calls

-----------------------------------------------------------------------------
(* Stages *)

Idle(t) == call[t].phase = "free"

\* Threads are at work only in their stage: the main thread in the first two,
\* the others while the inventory is collected, each on a target of its own that
\* has no entry yet.  A stage is left when all of its resources are through.
StageInv ==
    /\ stage \in {"off", "report"} => \A t \in Threads : Idle(t)
    /\ stage \in {"discovery", "deep"} =>
          /\ \A w \in Workers : Idle(w)
          /\ \A r \in Others : entries[r] = "none"
    /\ stage = "discovery" => \A r \in Deep : coverage[r] = "none"
    /\ stage = "deep" /\ ~ Idle(Main) =>
          /\ call[Main].target \in Deep \cap served.names
          /\ coverage[call[Main].target] = "none"
    /\ stage \in {"universal", "report"} => \A r \in Deep : coverage[r] # "none"
    /\ stage = "universal" =>
          /\ Idle(Main)
          /\ \A w \in Workers : ~ Idle(w) =>
                /\ call[w].target \in Targets /\ entries[call[w].target] = "none"
                /\ \A v \in Workers \ {w} : ~ Idle(v) => call[v].target # call[w].target

LEMMA InitStages == InventoryInit => StageInv
  <1> SUFFICES ASSUME InventoryInit PROVE StageInv
    OBVIOUS
  <1>1. stage = "off" /\ \A t \in Threads : call[t].phase = "free"
    BY DEF InventoryInit, NoCall
  <1> QED
    BY <1>1 DEF StageInv, Idle

LEMMA NextStages ==
    ASSUME InventoryTypes, StageInv, [InventoryNext]_inventoryVars
    PROVE  StageInv'
  <1>0. /\ Main \in Threads /\ Workers \subseteq Threads /\ Main \notin Workers
        /\ Threads = {Main} \cup Workers /\ call \in [Threads -> CallType]
        /\ coverage \in [Deep -> States \cup {"N/A", "PARTIAL"}] /\ entries \in [Others -> States]
    BY InventoryAssumption DEF Threads, InventoryTypes
  <1>1. ASSUME NEW t \in Threads, Calls(t) PROVE StageInv'
    <2>1. \A u \in Threads : (Idle(u)' <=> Idle(u)) /\ call'[u].target = call[u].target
      BY <1>1, CallStep DEF Idle
    <2>2. UNCHANGED <<stage, served, coverage, entries>> /\ Targets' = Targets
      BY <1>1, CallStep DEF control, results, Targets
    <2> QED
      BY <1>0, <2>1, <2>2 DEF StageInv
  <1>2. CASE StartSession
    <2>1. stage = "off" /\ stage' = "discovery" /\ call' = [call EXCEPT ![Main] = Call("namespaced")]
      BY <1>2 DEF StartSession
    <2>2. coverage' = [r \in Deep |-> "none"] /\ entries' = [r \in Others |-> "none"]
      BY <1>2 DEF StartSession, Fresh
    <2> QED
      BY <1>0, <2>1, <2>2 DEF StageInv, Idle
  <1>3. CASE Discover
    <2>1. /\ stage = "discovery" /\ stage' \in {"discovery", "deep"}
          /\ stage' = "deep" => call' = [call EXCEPT ![Main] = NoCall]
          /\ \A w \in Workers : call'[w] = call[w]
          /\ UNCHANGED <<coverage, entries>>
      BY <1>0, <1>3 DEF Discover
    <2> QED
      BY <1>0, <2>1, CallsGiven DEF StageInv, Idle
  <1>4. CASE NextDeep
    <2>1. stage = "deep" /\ UNCHANGED <<stage, served, entries>> /\ Idle(Main)
      BY <1>4 DEF NextDeep, control, Idle
    <2>2. PICK r \in Todo : ReuseSnapshot(r) \/ NotServed(r) \/ ListDeep(r)
      BY <1>4 DEF NextDeep
    <2>3. CASE UNCHANGED call
      BY <2>1, <2>3 DEF StageInv, Idle
    <2>4. CASE ListDeep(r)
      <3>1. /\ r \in Deep \cap served.names /\ coverage[r] = "none" /\ UNCHANGED coverage
            /\ call' = [call EXCEPT ![Main] = Call(r)] /\ Call(r).target = r
        BY <2>2, <2>4, CallsGiven DEF ListDeep, Todo
      <3> QED
        BY <1>0, <2>1, <3>1 DEF StageInv, Idle
    <2> QED
      BY <2>2, <2>3, <2>4 DEF ReuseSnapshot, NotServed
  <1>5. CASE SaveDeep
    <2>1. /\ stage = "deep" /\ UNCHANGED <<stage, served, entries>>
          /\ call' = [call EXCEPT ![Main] = NoCall]
      BY <1>5 DEF SaveDeep, control
    <2> QED
      BY <1>0, <2>1, CallsGiven DEF StageInv, Idle
  <1>6. CASE BeginUniversal
    <2>1. /\ stage = "deep" /\ stage' \in {"report", "universal"} /\ UNCHANGED <<call, results>>
          /\ Idle(Main) /\ Todo = {}
      BY <1>6 DEF BeginUniversal, Idle
    <2> QED
      BY <1>0, <2>1 DEF StageInv, Idle, Todo, results
  <1>7. CASE SaveInventory
    <2>1. /\ stage = "universal" /\ stage' = "report" /\ UNCHANGED <<call, results>>
          /\ \A r \in Targets : entries[r] # "none"
      BY <1>7 DEF SaveInventory
    <2>2. \A t \in Threads : Idle(t)
      BY <1>0, <2>1 DEF StageInv
    <2> QED
      BY <2>1, <2>2 DEF StageInv, Idle, results
  <1>8. CASE WriteProvenance
    <2>1. stage = "report" /\ stage' = "off" /\ UNCHANGED <<call, results>>
      BY <1>8 DEF WriteProvenance
    <2> QED
      BY <2>1 DEF StageInv, Idle, results
  <1>9. ASSUME NEW w \in Workers, Take(w) PROVE StageInv'
    <2>1. stage = "universal" /\ UNCHANGED <<stage, results>> /\ Targets' = Targets
      BY <1>9 DEF Take, control, results, Targets
    <2>2. PICK r \in Targets :
             /\ entries[r] = "none"
             /\ \A v \in Workers : call[v].target # r
             /\ call' = [call EXCEPT ![w] = Call(r)]
      BY <1>9 DEF Take
    <2>3. Call(r).target = r
      BY <2>2, CallsGiven DEF Targets
    <2> QED
      BY <1>0, <2>1, <2>2, <2>3 DEF StageInv, Idle, results
  <1>10. ASSUME NEW w \in Workers, CollectOne(w) PROVE StageInv'
    <2>1. /\ stage = "universal" /\ UNCHANGED <<stage, served, coverage>> /\ Targets' = Targets
          /\ ~ Idle(w) /\ call' = [call EXCEPT ![w] = NoCall]
      BY <1>10 DEF CollectOne, control, Targets, Idle
    <2>2. \A r \in Others \ {call[w].target} : entries'[r] = entries[r]
      BY <1>0, <1>10 DEF CollectOne
    <2>3. \A v \in Workers : ~ Idle(v)' => v # w /\ ~ Idle(v) /\ call'[v] = call[v]
      BY <1>0, <2>1, CallsGiven DEF Idle
    <2>4. \A v \in Workers : ~ Idle(v)' => call[v].target \in Others \ {call[w].target}
      BY <2>1, <2>3 DEF StageInv, Targets
    <2> QED
      BY <1>0, <2>1, <2>2, <2>3, <2>4 DEF StageInv, Idle
  <1>11. CASE Tick \/ SwitchContext \/ (\E r \in Deep : Edit(r)) \/ UNCHANGED inventoryVars
    <2>1. UNCHANGED <<stage, call, results>>
      BY <1>11 DEF Tick, SwitchContext, Edit, inventoryVars, control
    <2> QED
      BY <2>1 DEF StageInv, Idle, Targets, results
  <1>12. CASE Crash
    <2>1. stage' = "off" /\ call' = [t \in Threads |-> NoCall]
      BY <1>12 DEF Crash
    <2> QED
      BY <2>1, CallsGiven DEF StageInv, Idle
  <1> QED
    BY <1>1, <1>2, <1>3, <1>4, <1>5, <1>6, <1>7, <1>8, <1>9, <1>10, <1>11, <1>12
    DEF InventoryNext, Calls

-----------------------------------------------------------------------------
(* The pace of the requests *)

\* Those whose slot is not later than x.
Due(x) == {t \in Asleep : call[t].wake <= x}

Since(count) == count * Delay

\* The requests of the budget are those asked and those that wait, whose slots are
\* a delay apart and before the next one.
SlotsInv ==
    /\ asked + Cardinality(Asleep) = budget.requests /\ budget.requests <= MaxRequests
    /\ \A t \in Asleep : call[t].wake + Delay <= budget.next
    /\ \A t, u \in Asleep : \/ t = u
                            \/ call[t].wake + Delay <= call[u].wake
                            \/ call[u].wake + Delay <= call[t].wake

\* Every request that was asked for or waits for its slot moved the next slot by
\* a delay; and no more requests can have been asked for at any time x than slots
\* have come by then.
PaceInv ==
    /\ SlotsInv
    /\ Since(asked + Cardinality(Asleep)) <= budget.next - budget.started
    /\ \A x \in Nat :
          x >= now /\ asked + Cardinality(Due(x)) # 0
             => Since(asked + Cardinality(Due(x)) - 1) <= x - budget.started

\* More requests take longer.
LEMMA SinceGrows ==
    ASSUME NEW i \in Int, NEW j \in Int
    PROVE  /\ Since(i) \in Int
           /\ i <= j => Since(i) <= Since(j)
           /\ Since(i + 1) = Since(i) + Delay
           /\ Since(0) = 0
  <1>1. Delay \in Nat
    BY InventoryAssumption
  <1>2. \A a, b, d \in Int : d >= 0 /\ a <= b => a * d <= b * d
    OBVIOUS
  <1>3. \A a, d \in Int : a * d \in Int /\ (a + 1) * d = a * d + d /\ 0 * d = 0
    OBVIOUS
  <1> QED
    BY <1>1, <1>2, <1>3 DEF Since

\* There are finitely many threads.
LEMMA SleepersCount ==
    /\ IsFiniteSet(Asleep) /\ Cardinality(Asleep) \in Nat
    /\ \A x : /\ IsFiniteSet(Due(x)) /\ Cardinality(Due(x)) \in Nat
              /\ Cardinality(Due(x)) <= Cardinality(Asleep)
  <1>1. IsFiniteSet(Threads)
    <2>1. IsFiniteSet({Main})
      BY FS_Singleton
    <2> QED
      BY <2>1, FS_Union, InventoryAssumption DEF Threads
  <1>2. IsFiniteSet(Asleep) /\ Cardinality(Asleep) \in Nat
    BY <1>1, FS_Subset, FS_CardinalityType DEF Asleep
  <1>3. ASSUME NEW x
        PROVE  /\ IsFiniteSet(Due(x)) /\ Cardinality(Due(x)) \in Nat
               /\ Cardinality(Due(x)) <= Cardinality(Asleep)
    <2>1. Due(x) \subseteq Asleep
      BY DEF Due
    <2> QED
      BY <1>2, <2>1, FS_Subset, FS_CardinalityType
  <1> QED
    BY <1>2, <1>3

LEMMA NobodySleeps ==
    ASSUME \A t \in Threads : call[t].phase # "asleep"
    PROVE  Cardinality(Asleep) = 0 /\ \A x : Cardinality(Due(x)) = 0
  BY FS_EmptySet DEF Asleep, Due

LEMMA InitPace == InventoryInit => PaceInv
  <1> SUFFICES ASSUME InventoryInit PROVE PaceInv
    OBVIOUS
  <1>1. /\ \A t \in Threads : call[t].phase # "asleep"
        /\ asked = 0 /\ budget.next = 0 /\ budget.started = 0 /\ budget.requests = 0
    BY DEF InventoryInit, NoCall
  <1>2. Since(0) = 0
    BY SinceGrows
  <1>3. SlotsInv
    BY <1>1, NobodySleeps, InventoryAssumption DEF SlotsInv, Asleep
  <1> QED
    BY <1>1, <1>2, <1>3, NobodySleeps DEF PaceInv

\* A session or its end, when nobody sleeps and nothing has been asked for.
LEMMA PaceStarts ==
    ASSUME InventoryTypes, Fresh, now' = now, \A t \in Threads : call'[t].phase # "asleep"
    PROVE  PaceInv'
  <1>1. Cardinality(Asleep)' = 0 /\ (\A x : Cardinality(Due(x))' = 0)
    BY NobodySleeps, FS_EmptySet DEF Asleep, Due
  <1>2. /\ asked' = 0 /\ budget'.requests = 0
        /\ budget'.next = now /\ budget'.started = now /\ now \in Nat
    BY DEF Fresh, FreshBudget, InventoryTypes
  <1>3. Since(0) = 0
    BY SinceGrows
  <1>4. SlotsInv'
    BY <1>1, <1>2, InventoryAssumption DEF SlotsInv, Asleep
  <1> QED
    BY <1>1, <1>2, <1>3, <1>4 DEF PaceInv, Since

\* A step that touches neither the requests nor those who wait; time may pass.
LEMMA PaceKept ==
    ASSUME InventoryTypes, PaceInv, now' \in Nat, now' >= now, asked' = asked,
           budget'.next = budget.next, budget'.started = budget.started,
           budget'.requests = budget.requests,
           \A t \in Threads :
               /\ call'[t].phase = "asleep" <=> call[t].phase = "asleep"
               /\ call[t].phase = "asleep" => call'[t].wake = call[t].wake
    PROVE  PaceInv'
  <1>1. Asleep' = Asleep
    BY DEF Asleep
  <1>2. \A x : Due(x)' = Due(x)
    BY DEF Asleep, Due
  <1>3. \A x \in Nat : x >= now' => x >= now
    BY DEF InventoryTypes
  <1>4. SlotsInv'
    <2>1. \A t \in Asleep : call'[t].wake = call[t].wake
      BY DEF Asleep
    <2> QED
      BY <1>1, <2>1 DEF PaceInv, SlotsInv
  <1> QED
    BY <1>1, <1>2, <1>3, <1>4 DEF PaceInv, Since

Granted(t) == Admit(t) /\ Refuse = ""

\* A reservation takes the next slot, at least a delay after the one before.
LEMMA PaceReserved ==
    ASSUME InventoryTypes, PaceInv, NEW t \in Threads, Granted(t)
    PROVE  PaceInv'
  <1>1. PICK w \in Nat : w = Later(now, budget.next)
    BY BudgetUpdates
  <1>2. /\ now \in Nat /\ asked \in Nat /\ Delay \in Nat
        /\ budget.next \in Nat /\ budget.started \in Nat
        /\ call \in [Threads -> CallType] /\ call[t] \in CallType
    BY InventoryAssumption DEF InventoryTypes, BudgetType
  <1>3. w >= now /\ w >= budget.next
    BY <1>1, <1>2 DEF Later
  <1>4. /\ call[t].phase = "admit" /\ budget' = Reserve(budget) /\ asked' = asked /\ now' = now
        /\ call' = [call EXCEPT ![t] = [call[t] EXCEPT !.phase = "asleep", !.wake = w]]
    BY <1>1 DEF Granted, Admit, history, control
  <1>5. /\ call'[t].phase = "asleep" /\ call'[t].wake = w
        /\ \A u \in Threads \ {t} : call'[u] = call[u]
    <2>1. /\ [call[t] EXCEPT !.phase = "asleep", !.wake = w].phase = "asleep"
          /\ [call[t] EXCEPT !.phase = "asleep", !.wake = w].wake = w
      BY <1>2 DEF CallType
    <2> QED
      BY <1>2, <1>4, <2>1
  <1>6. /\ budget'.next = w + Delay /\ budget'.started = budget.started
        /\ budget'.requests = budget.requests + 1
    BY <1>1, <1>4, BudgetUpdates
  <1>7. t \notin Asleep /\ Asleep' = Asleep \cup {t} /\ Asleep \subseteq Threads
    BY <1>4, <1>5 DEF Asleep
  <1>8. PICK c \in Nat : c = Cardinality(Asleep)
    BY SleepersCount
  <1>9. Cardinality(Asleep') = c + 1
    BY <1>7, <1>8, SleepersCount, FS_AddElement
  <1>10. PICK due \in Int : due = Since(asked + c)
    BY <1>2, SinceGrows
  <1>11. due <= budget.next - budget.started
    BY <1>8, <1>10 DEF PaceInv
  <1>12. Since(asked' + Cardinality(Asleep')) <= budget'.next - budget'.started
    <2>1. Since(asked + c + 1) = due + Delay
      <3>1. asked + c \in Int
        BY <1>2
      <3> QED
        BY <1>10, <3>1, SinceGrows
    <2>2. asked' + Cardinality(Asleep') = asked + c + 1
      BY <1>2, <1>4, <1>9
    <2>3. due + Delay <= w + Delay - budget.started
      BY <1>2, <1>3, <1>11
    <2> QED
      BY <1>2, <1>6, <2>1, <2>2, <2>3
  <1>13. ASSUME NEW x \in Nat, x >= now, asked + Cardinality(Due(x)') # 0
         PROVE  Since(asked + Cardinality(Due(x)') - 1) <= x - budget.started
    <2>1. CASE w <= x
      <3>1. Due(x)' = Due(x) \cup {t} /\ t \notin Due(x)
        BY <1>5, <1>7, <2>1 DEF Due
      <3>2. PICK d \in Nat : d = Cardinality(Due(x)) /\ d <= c
        BY <1>8, SleepersCount
      <3>3. Cardinality(Due(x)') = d + 1
        BY <3>1, <3>2, SleepersCount, FS_AddElement
      <3>4. asked + Cardinality(Due(x)') - 1 = asked + d
        BY <1>2, <3>3
      <3>5. asked + d \in Int /\ asked + c \in Int /\ asked + d <= asked + c
        BY <1>2, <3>2
      <3>6. Since(asked + d) \in Int /\ Since(asked + d) <= due
        BY <1>10, <3>5, SinceGrows
      <3> QED
        BY <1>2, <1>3, <1>11, <2>1, <3>4, <3>6
    <2>2. CASE ~ (w <= x)
      <3>1. Due(x)' = Due(x)
        BY <1>5, <1>7, <2>2 DEF Due
      <3> QED
        BY <1>13, <3>1 DEF PaceInv
    <2> QED
      BY <2>1, <2>2
  <1>14. SlotsInv'
    <2>1. budget.requests \in Nat /\ MaxRequests \in Nat /\ ~ (budget.requests >= MaxRequests)
      BY InventoryAssumption DEF Granted, Refuse, Exhausted, InventoryTypes, BudgetType
    <2>2. SlotsInv /\ c = Cardinality(Asleep)
      BY <1>8 DEF PaceInv
    <2>3. asked' + Cardinality(Asleep') = budget'.requests /\ budget'.requests <= MaxRequests
      BY <1>2, <1>4, <1>6, <1>9, <2>1, <2>2 DEF SlotsInv
    <2>4. \A u \in Asleep : /\ call[u].wake \in Nat /\ call'[u].wake = call[u].wake
                            /\ call[u].wake + Delay <= w
      BY <1>2, <1>3, <1>5, <1>7, <2>2 DEF SlotsInv, CallType
    <2>5. \A u \in Asleep' : call'[u].wake + Delay <= budget'.next
      BY <1>2, <1>5, <1>6, <1>7, <2>4
    <2>6. ASSUME NEW u \in Asleep', NEW v \in Asleep', u # v
          PROVE  \/ call'[u].wake + Delay <= call'[v].wake
                 \/ call'[v].wake + Delay <= call'[u].wake
      BY <1>5, <1>7, <2>2, <2>4, <2>6 DEF SlotsInv
    <2> QED
      BY <2>3, <2>5, <2>6 DEF SlotsInv
  <1> QED
    BY <1>4, <1>6, <1>12, <1>13, <1>14 DEF PaceInv, Since

\* Whoever asks waited for its slot: one fewer waits, one more has asked.
LEMMA PaceAsked ==
    ASSUME InventoryTypes, PaceInv, NEW t \in Threads, Ask(t)
    PROVE  PaceInv'
  <1>0. now \in Nat /\ asked \in Nat /\ call \in [Threads -> CallType] /\ call[t].wake \in Nat
    BY DEF InventoryTypes, CallType
  <1>1. /\ call[t].phase = "asleep" /\ now >= call[t].wake /\ asked' = asked + 1
        /\ call' = [call EXCEPT ![t] = [call[t] EXCEPT !.phase = "asking", !.wake = 0]]
        /\ now' = now /\ budget' = budget
    BY DEF Ask, control
  <1>2. /\ call'[t].phase # "asleep"
        /\ \A u \in Threads \ {t} : call'[u] = call[u]
    <2>1. call[t] \in CallType
      BY <1>0
    <2>2. [call[t] EXCEPT !.phase = "asking", !.wake = 0].phase = "asking"
      BY <2>1 DEF CallType
    <2> QED
      BY <1>0, <1>1, <2>2
  <1>3. t \in Asleep /\ Asleep' = Asleep \ {t} /\ Asleep \subseteq Threads
    BY <1>1, <1>2 DEF Asleep
  <1>4. Cardinality(Asleep') = Cardinality(Asleep) - 1
    BY <1>3, SleepersCount, FS_RemoveElement
  <1>5. asked' + Cardinality(Asleep') = asked + Cardinality(Asleep)
    BY <1>0, <1>1, <1>4, SleepersCount
  <1>6. ASSUME NEW x \in Nat, x >= now
        PROVE  /\ asked' + Cardinality(Due(x)') = asked + Cardinality(Due(x))
               /\ Cardinality(Due(x)') = Cardinality(Due(x)) - 1
    <2>1. t \in Due(x)
      BY <1>0, <1>1, <1>3, <1>6 DEF Due
    <2>2. Due(x)' = Due(x) \ {t}
      BY <1>2, <1>3 DEF Due
    <2>3. Cardinality(Due(x)') = Cardinality(Due(x)) - 1
      BY <2>1, <2>2, SleepersCount, FS_RemoveElement
    <2> QED
      BY <1>0, <1>1, <2>3, SleepersCount
  <1>7. ASSUME NEW x \in Nat, x >= now', asked' + Cardinality(Due(x)') # 0
        PROVE  Since(asked' + Cardinality(Due(x)') - 1) <= x - budget.started
    <2>1. asked' + Cardinality(Due(x)') = asked + Cardinality(Due(x)) /\ x >= now
      BY <1>1, <1>6, <1>7
    <2>2. asked + Cardinality(Due(x)) # 0
      BY <1>7, <2>1
    <2>3. Since(asked + Cardinality(Due(x)) - 1) <= x - budget.started
      BY <1>7, <2>1, <2>2 DEF PaceInv
    <2>4. asked' + Cardinality(Due(x)') - 1 = asked + Cardinality(Due(x)) - 1
      <3>1. PICK d \in Nat : d = Cardinality(Due(x))
        BY SleepersCount
      <3>2. PICK e \in Int : e = Cardinality(Due(x)')
        <4>1. Cardinality(Due(x)') = Cardinality(Due(x)) - 1
          BY <1>1, <1>6, <2>1
        <4> QED
          BY <3>1, <4>1
      <3> QED
        BY <1>0, <1>1, <2>1, <3>1, <3>2
    <2> QED
      BY <2>3, <2>4
  <1>8. Since(asked' + Cardinality(Asleep')) <= budget.next - budget.started
    BY <1>5 DEF PaceInv
  <1>9. SlotsInv'
    <2>1. SlotsInv /\ budget' = budget
      BY <1>1 DEF PaceInv
    <2>2. \A u \in Asleep' : u \in Asleep /\ call'[u] = call[u]
      BY <1>2, <1>3
    <2> QED
      BY <1>5, <2>1, <2>2 DEF SlotsInv
  <1> QED
    BY <1>1, <1>7, <1>8, <1>9 DEF PaceInv, Since

\* Every step keeps the pace.
LEMMA NextPace ==
    ASSUME InventoryTypes, StageInv, PaceInv, [InventoryNext]_inventoryVars
    PROVE  PaceInv'
  <1>0. /\ Main \in Threads /\ Workers \subseteq Threads /\ call \in [Threads -> CallType]
        /\ now \in Nat /\ now + 1 \in Nat /\ now + 1 >= now /\ now >= now
    BY DEF Threads, InventoryTypes
  <1>1. ASSUME NEW t \in Threads, Admit(t) PROVE PaceInv'
    <2>1. CASE Granted(t)
      BY <2>1, PaceReserved
    <2>2. CASE ~ Granted(t)
      <3>1. /\ call[t].phase = "admit" /\ now' = now /\ asked' = asked
            /\ budget' = [budget EXCEPT !.reason = Refuse]
            /\ call' = [call EXCEPT ![t] = [call[t] EXCEPT !.phase = "failed"]]
        BY <1>1, <2>2 DEF Granted, Admit, Returned, control, history
      <3>2. /\ budget'.next = budget.next /\ budget'.started = budget.started
            /\ budget'.requests = budget.requests
        BY <3>1, BudgetUpdates
      <3>3. [call[t] EXCEPT !.phase = "failed"].phase = "failed"
        BY <1>0 DEF CallType
      <3>4. \A u \in Threads :
               /\ call'[u].phase = "asleep" <=> call[u].phase = "asleep"
               /\ call[u].phase = "asleep" => call'[u].wake = call[u].wake
        BY <1>0, <3>1, <3>3
      <3> QED
        BY <1>0, <3>1, <3>2, <3>4, PaceKept
    <2> QED
      BY <2>1, <2>2
  <1>2. ASSUME NEW t \in Threads, Ask(t) PROVE PaceInv'
    BY <1>2, PaceAsked
  <1>3. ASSUME NEW t \in Threads, Respond(t) PROVE PaceInv'
    <2>1. PICK outcome \in {"listed", "failed", "transient"}, size \in {0, 1} :
             /\ budget' = Counted(size)
             /\ call' = IF outcome = "transient" /\ call[t].attempt < Retries
                        THEN [call EXCEPT ![t] = Again(@)]
                        ELSE Returned(t, IF outcome = "listed" THEN "listed" ELSE "failed")
      BY <1>3 DEF Respond
    <2>2. /\ budget'.next = budget.next /\ budget'.started = budget.started
          /\ budget'.requests = budget.requests
      BY <2>1, BudgetUpdates
    <2>3. now' = now /\ asked' = asked /\ call[t].phase = "asking"
      BY <1>3 DEF Respond, control, history
    <2>4. call'[t].phase \in {"admit", "listed", "failed"} /\ \A u \in Threads \ {t} : call'[u] = call[u]
      <3>1. \A phase \in {"listed", "failed"} : [call[t] EXCEPT !.phase = phase].phase = phase
        BY <1>0 DEF CallType
      <3>2. Again(call[t]).phase = "admit"
        BY <1>0 DEF CallType, Again
      <3>3. CASE outcome = "transient" /\ call[t].attempt < Retries
        BY <1>0, <2>1, <3>2, <3>3
      <3>4. CASE ~ (outcome = "transient" /\ call[t].attempt < Retries)
        BY <1>0, <2>1, <3>1, <3>4 DEF Returned
      <3> QED
        BY <3>3, <3>4
    <2>5. \A u \in Threads :
             /\ call'[u].phase = "asleep" <=> call[u].phase = "asleep"
             /\ call[u].phase = "asleep" => call'[u].wake = call[u].wake
      BY <2>3, <2>4
    <2> QED
      BY <1>0, <2>2, <2>3, <2>5, PaceKept
  <1>4. CASE StartSession
    <2>1. Fresh /\ now' = now /\ stage = "off" /\ call' = [call EXCEPT ![Main] = Call("namespaced")]
      BY <1>4 DEF StartSession
    <2>2. Call("namespaced").phase = "admit"
      BY CallsGiven
    <2>3. \A t \in Threads : call'[t].phase # "asleep"
      BY <1>0, <2>1, <2>2 DEF StageInv, Idle
    <2> QED
      BY <2>1, <2>3, PaceStarts
  <1>5. CASE Crash
    <2>1. Fresh /\ now' = now /\ call' = [t \in Threads |-> NoCall]
      BY <1>5 DEF Crash
    <2>2. \A t \in Threads : call'[t].phase # "asleep"
      BY <2>1, CallsGiven
    <2> QED
      BY <2>1, <2>2, PaceStarts
  <1>6. ASSUME NEW t \in Threads, NEW c \in CallType, call[t].phase # "asleep", c.phase # "asleep",
               call' = [call EXCEPT ![t] = c], UNCHANGED <<now, budget, asked>>
        PROVE  PaceInv'
    <2>1. \A u \in Threads :
             /\ call'[u].phase = "asleep" <=> call[u].phase = "asleep"
             /\ call[u].phase = "asleep" => call'[u].wake = call[u].wake
      BY <1>0, <1>6
    <2> QED
      BY <1>0, <1>6, <2>1, PaceKept
  <1>7. CASE Discover
    <2>1. /\ call[Main].phase # "asleep" /\ UNCHANGED <<now, budget, asked>>
          /\ call' = [call EXCEPT ![Main] = Call("cluster")] \/ call' = [call EXCEPT ![Main] = NoCall]
      BY <1>7 DEF Discover, history
    <2> QED
      BY <1>0, <1>6, <2>1, CallsGiven
  <1>8. CASE SaveDeep
    <2>1. /\ call[Main].phase # "asleep" /\ UNCHANGED <<now, budget, asked>>
          /\ call' = [call EXCEPT ![Main] = NoCall]
      BY <1>8 DEF SaveDeep, control, history
    <2> QED
      BY <1>0, <1>6, <2>1, CallsGiven
  <1>9. CASE NextDeep
    <2>1. PICK r \in Todo : ReuseSnapshot(r) \/ NotServed(r) \/ ListDeep(r)
      BY <1>9 DEF NextDeep
    <2>2. r \in Deep /\ call[Main].phase # "asleep" /\ UNCHANGED <<now, budget, asked>>
      BY <1>9 DEF NextDeep, control, Todo
    <2>3. CASE UNCHANGED call
      BY <1>0, <2>2, <2>3, PaceKept
    <2>4. CASE ListDeep(r)
      BY <1>0, <1>6, <2>2, <2>4, CallsGiven DEF ListDeep
    <2> QED
      BY <2>1, <2>3, <2>4 DEF ReuseSnapshot, NotServed
  <1>10. ASSUME NEW w \in Workers, Take(w) \/ CollectOne(w) PROVE PaceInv'
    <2>1. /\ call[w].phase # "asleep" /\ UNCHANGED <<now, budget, asked>>
          /\ call' = [call EXCEPT ![w] = NoCall] \/ \E r \in Others : call' = [call EXCEPT ![w] = Call(r)]
      BY <1>10 DEF Take, CollectOne, control, history, Targets
    <2> QED
      BY <1>0, <1>6, <2>1, CallsGiven
  <1>11. CASE \/ BeginUniversal \/ SaveInventory \/ WriteProvenance \/ SwitchContext
              \/ (\E r \in Deep : Edit(r)) \/ UNCHANGED inventoryVars
    <2>1. UNCHANGED <<now, budget, asked, call>>
      BY <1>11
      DEF BeginUniversal, SaveInventory, WriteProvenance, SwitchContext, Edit, inventoryVars, control, history
    <2> QED
      BY <1>0, <2>1, PaceKept
  <1>12. CASE Tick
    <2>1. now' = now + 1 /\ UNCHANGED <<budget, asked, call>>
      BY <1>12 DEF Tick, history
    <2> QED
      BY <1>0, <2>1, PaceKept
  <1> QED
    BY <1>1, <1>2, <1>3, <1>4, <1>5, <1>7, <1>8, <1>9, <1>10, <1>11, <1>12 DEF InventoryNext

LEMMA PaceInvariance == InventorySpec => [](InventoryTypes /\ StageInv /\ PaceInv)
  BY InitTypes, InitStages, InitPace, NextTypes, NextStages, NextPace, PTL DEF InventorySpec

\* However the threads interleave between their slot and their request, slots are
\* a delay apart and counted against the budget, and at no time have more requests
\* come than slots (ApiBudget.before_request sleeps outside the lock).
THEOREM SlotsAreSpaced == InventorySpec => []SlotsKeepTheirPace
  <1>1. InventoryTypes /\ PaceInv => SlotsKeepTheirPace
    <2> SUFFICES ASSUME InventoryTypes, PaceInv, asked # 0
                 PROVE  (asked - 1) * Delay <= now - budget.started
      BY DEF SlotsKeepTheirPace, PaceInv, SlotsInv
    <2>1. now \in Nat /\ asked \in Nat /\ budget.started \in Nat
      BY DEF InventoryTypes, BudgetType
    <2>2. PICK d \in Nat : d = Cardinality(Due(now))
      BY SleepersCount
    <2>3. Since(asked + d - 1) <= now - budget.started
      BY <2>1, <2>2 DEF PaceInv
    <2>4. Since(asked - 1) <= Since(asked + d - 1) /\ Since(asked - 1) \in Int /\ Since(asked + d - 1) \in Int
      <3>1. asked - 1 \in Int /\ asked + d - 1 \in Int /\ asked - 1 <= asked + d - 1
        BY <2>1
      <3> QED
        BY <3>1, SinceGrows
    <2>5. Since(asked - 1) <= now - budget.started
      BY <2>1, <2>3, <2>4
    <2> QED
      BY <2>5 DEF Since
  <1> QED
    BY <1>1, PaceInvariance, PTL

-----------------------------------------------------------------------------
(* The snapshots a session finds and leaves *)

\* Nobody switched the context, in this session or in those it resumes.
Kept == steady /\ (resume => provenance.steady)

\* The provenance covers every deep resource or none, and a steady one recorded
\* lists of its own cluster.
RecordedInv ==
    /\ DOMAIN provenance.snapshots \in {{}, Deep}
    /\ provenance.steady => \A r \in DOMAIN provenance.snapshots :
          provenance.snapshots[r] \in {Empty, ListOf(provenance.cluster)}

\* What a session has not come to is as a resumption found it; what it has come
\* to is on disk; and what it calls available without a resumption is its own.
FilesInv ==
    /\ resume => DOMAIN provenance.snapshots = Deep
    /\ resume /\ steady => provenance.cluster = cluster
    /\ \A r \in Deep :
          /\ coverage[r] = "none" /\ resume => file[r] = provenance.snapshots[r]
          /\ coverage[r] # "none" =>
                /\ file[r] # Absent
                /\ Kept => file[r] \in {Empty, ListOf(cluster)}
          /\ coverage[r] = "AVAILABLE" /\ steady /\ ~ resume => file[r] = ListOf(cluster)
    /\ reused # {} => resume
    /\ \A r \in reused : r \in Deep /\ coverage[r] # "none"

FileInv == RecordedInv /\ (stage # "off" => FilesInv)

\* What stands for no list is no list of a cluster.
LEMMA ListsAreLists ==
    /\ Empty # Absent /\ Nowhere # Absent
    /\ \A c \in Clusters : ListOf(c) # Absent
  BY ClusterAssumption DEF Empty, Absent, Nowhere, ListOf

LEMMA InitFiles == InventoryInit => FileInv
  <1> SUFFICES ASSUME InventoryInit PROVE FileInv
    OBVIOUS
  <1>1. stage = "off" /\ provenance.snapshots = <<>>
    BY DEF InventoryInit, NoProvenance
  <1>2. DOMAIN provenance.snapshots = {}
    BY <1>1
  <1> QED
    BY <1>1, <1>2 DEF FileInv, RecordedInv

\* A step that leaves the disk and the session's results alone.
LEMMA FilesKept ==
    ASSUME FileInv,
           UNCHANGED <<resume, coverage, file, provenance, reused>>,
           stage' # "off" => stage # "off",
           steady' => UNCHANGED <<steady, cluster>>
    PROVE  FileInv'
  <1>1. RecordedInv'
    BY DEF FileInv, RecordedInv
  <1>2. ASSUME stage # "off" PROVE FilesInv'
    <2>1. FilesInv
      BY <1>2 DEF FileInv
    <2>2. CASE ~ steady'
      BY <2>1, <2>2 DEF FilesInv, Kept
    <2>3. CASE steady'
      BY <2>1, <2>3 DEF FilesInv, Kept
    <2> QED
      BY <2>2, <2>3
  <1> QED
    BY <1>1, <1>2 DEF FileInv

\* One deep resource is through: its file is there, of the cluster if nobody
\* switched, and listed if it counts as available without a resumption.
LEMMA FilesGrow ==
    ASSUME InventoryTypes, FileInv, stage # "off", UNCHANGED <<stage, cluster, resume, steady, provenance>>,
           NEW r \in Deep, NEW how \in (States \cup {"N/A", "PARTIAL"}) \ {"none"}, NEW content,
           coverage[r] = "none",
           coverage' = [coverage EXCEPT ![r] = how],
           file' = [file EXCEPT ![r] = content],
           content # Absent,
           Kept => content \in {Empty, ListOf(cluster)},
           how = "AVAILABLE" /\ steady /\ ~ resume => content = ListOf(cluster),
           (reused' = reused) \/ (resume /\ reused' = reused \cup {r})
    PROVE  FileInv'
  <1>0. /\ coverage \in [Deep -> States \cup {"N/A", "PARTIAL"}]
        /\ file \in [Deep -> {Absent, Nowhere, Empty} \cup {ListOf(c) : c \in Clusters}]
        /\ Kept' = Kept
    BY DEF InventoryTypes, Kept
  <1>1. /\ coverage'[r] = how /\ file'[r] = content
        /\ \A o \in Deep \ {r} : coverage'[o] = coverage[o] /\ file'[o] = file[o]
    BY <1>0
  <1>2. RecordedInv'
    BY DEF FileInv, RecordedInv
  <1>3. FilesInv
    BY DEF FileInv
  <1>4. ASSUME NEW o \in Deep
        PROVE  /\ coverage'[o] = "none" /\ resume => file'[o] = provenance.snapshots[o]
               /\ coverage'[o] # "none" =>
                     /\ file'[o] # Absent
                     /\ Kept => file'[o] \in {Empty, ListOf(cluster)}
               /\ coverage'[o] = "AVAILABLE" /\ steady /\ ~ resume => file'[o] = ListOf(cluster)
    <2>1. CASE o = r
      BY <1>1, <2>1
    <2>2. CASE o # r
      BY <1>1, <1>3, <2>2 DEF FilesInv
    <2> QED
      BY <2>1, <2>2
  <1>5. /\ reused' # {} => resume
        /\ \A o \in reused' : o \in Deep /\ coverage'[o] # "none"
    BY <1>1, <1>3 DEF FilesInv
  <1> QED
    BY <1>0, <1>2, <1>3, <1>4, <1>5 DEF FileInv, FilesInv

LEMMA NextFiles ==
    ASSUME InventoryTypes, StageInv, FileInv, [InventoryNext]_inventoryVars
    PROVE  FileInv'
  <1>0. /\ Main \in Threads /\ Workers \subseteq Threads /\ cluster \in Clusters
        /\ coverage \in [Deep -> States \cup {"N/A", "PARTIAL"}]
        /\ file \in [Deep -> {Absent, Nowhere, Empty} \cup {ListOf(c) : c \in Clusters}]
    BY DEF Threads, InventoryTypes
  <1>1. ASSUME NEW t \in Threads, Calls(t) PROVE FileInv'
    <2>1. UNCHANGED <<control, results, disk, reused, steady>>
      BY <1>1, CallStep
    <2> QED
      BY <2>1, FilesKept DEF control, results, disk
  <1>2. CASE StartSession
    <2>1. PICK c \in Clusters, again \in BOOLEAN :
             cluster' = c /\ resume' = again /\ (again => ValidResume(c))
      BY <1>2 DEF StartSession
    <2>2. /\ UNCHANGED <<file, provenance>> /\ reused' = {}
          /\ \A r \in Deep : coverage'[r] = "none"
      BY <1>2 DEF StartSession, Fresh, disk
    <2>3. RecordedInv'
      BY <2>2 DEF FileInv, RecordedInv
    <2>4. again => /\ DOMAIN provenance.snapshots = Deep /\ provenance.cluster = c
                   /\ \A r \in Deep : file[r] = provenance.snapshots[r]
      BY <2>1 DEF ValidResume, FileInv, RecordedInv
    <2> QED
      BY <2>1, <2>2, <2>3, <2>4 DEF FileInv, FilesInv
  <1>3. CASE NextDeep
    <2>1. /\ stage = "deep"
          /\ UNCHANGED <<stage, cluster, resume, provenance, steady>>
      BY <1>3 DEF NextDeep, control
    <2>2. PICK r \in Todo : ReuseSnapshot(r) \/ NotServed(r) \/ ListDeep(r)
      BY <1>3 DEF NextDeep
    <2>3. r \in Deep /\ coverage[r] = "none"
      BY <2>2 DEF Todo
    <2>4. FilesInv
      BY <2>1 DEF FileInv
    <2>5. CASE ReuseSnapshot(r)
      <3>1. /\ resume /\ file[r] # Absent /\ reused' = reused \cup {r}
            /\ coverage' = [coverage EXCEPT ![r] = "AVAILABLE"] /\ file' = file
        BY <2>5 DEF ReuseSnapshot
      <3>2. Kept => file[r] \in {Empty, ListOf(cluster)}
        BY <2>3, <2>4, <3>1 DEF FilesInv, FileInv, RecordedInv, Kept
      <3>3. file' = [file EXCEPT ![r] = file[r]]
        BY <1>0, <3>1
      <3> QED
        BY <2>1, <2>3, <3>1, <3>2, <3>3, FilesGrow DEF States
    <2>6. CASE NotServed(r)
      <3>1. PICK how \in {"N/A", "PARTIAL"} : coverage' = [coverage EXCEPT ![r] = how]
        BY <2>6 DEF NotServed
      <3>2. file' = [file EXCEPT ![r] = Empty] /\ reused' = reused
        BY <2>6 DEF NotServed
      <3>3. how \in (States \cup {"N/A", "PARTIAL"}) \ {"none"} /\ how # "AVAILABLE"
        BY <3>1 DEF States
      <3> QED
        BY <2>1, <2>3, <3>1, <3>2, <3>3, ListsAreLists, FilesGrow
    <2>7. CASE ListDeep(r)
      <3>1. UNCHANGED <<coverage, file, reused>>
        BY <2>7 DEF ListDeep
      <3> QED
        BY <2>1, <3>1, FilesKept
    <2> QED
      BY <2>2, <2>5, <2>6, <2>7
  <1>4. CASE SaveDeep
    <2> DEFINE r == call[Main].target
    <2>1. /\ stage = "deep" /\ call[Main].phase \in {"listed", "failed"}
          /\ UNCHANGED <<stage, cluster, resume, provenance, steady, reused>>
      BY <1>4 DEF SaveDeep, control, history
    <2>2. r \in Deep /\ coverage[r] = "none"
      BY <1>0, <2>1 DEF StageInv, Idle
    <2>3. PICK parses \in BOOLEAN :
             /\ coverage' = [coverage EXCEPT ![r] = IF parses THEN "AVAILABLE" ELSE "UNAVAILABLE"]
             /\ file' = [file EXCEPT ![r] = IF parses THEN ListOf(cluster) ELSE Empty]
      BY <1>4 DEF SaveDeep
    <2>4. CASE parses
      BY <1>0, <2>1, <2>2, <2>3, <2>4, ListsAreLists, FilesGrow DEF States
    <2>5. CASE ~ parses
      BY <1>0, <2>1, <2>2, <2>3, <2>5, ListsAreLists, FilesGrow DEF States
    <2> QED
      BY <2>4, <2>5
  <1>5. CASE WriteProvenance
    <2>1. /\ stage = "report" /\ stage' = "off"
          /\ provenance' = [cluster |-> cluster, snapshots |-> SnapshotHashes,
                            steady |-> steady /\ (resume => provenance.steady)]
      BY <1>5 DEF WriteProvenance
    <2>2. FilesInv /\ \A r \in Deep : coverage[r] # "none"
      BY <2>1 DEF FileInv, StageInv
    <2>3. Snapshots = Deep
      BY <2>2 DEF FilesInv, Snapshots
    <2>4. provenance'.snapshots = [r \in Deep |-> file[r]] /\ provenance'.cluster = cluster
      BY <2>1, <2>3 DEF SnapshotHashes
    <2>5. provenance'.steady => Kept
      BY <2>1 DEF Kept
    <2>6. RecordedInv'
      BY <2>2, <2>4, <2>5 DEF RecordedInv, FilesInv
    <2> QED
      BY <2>1, <2>6 DEF FileInv
  <1>6. CASE Crash \/ \E r \in Deep : Edit(r)
    <2>1. stage' = "off" /\ provenance' = provenance
      BY <1>6 DEF Crash, Edit, control, disk
    <2> QED
      BY <2>1 DEF FileInv, RecordedInv
  <1>7. CASE SwitchContext
    BY <1>7, FilesKept DEF SwitchContext, results, disk
  <1>8. CASE \/ Discover \/ BeginUniversal \/ SaveInventory \/ Tick \/ UNCHANGED inventoryVars
             \/ \E w \in Workers : Take(w) \/ CollectOne(w)
    <2>1. /\ UNCHANGED <<cluster, resume, coverage, file, provenance, reused, steady>>
          /\ stage' # "off" => stage # "off"
      BY <1>8
      DEF Discover, BeginUniversal, SaveInventory, Tick, Take, CollectOne,
          inventoryVars, control, results, disk, history
    <2> QED
      BY <2>1, FilesKept
  <1> QED
    BY <1>1, <1>2, <1>3, <1>4, <1>5, <1>6, <1>7, <1>8 DEF InventoryNext, Calls

LEMMA FileInvariance == InventorySpec => [](InventoryTypes /\ StageInv /\ FileInv)
  BY InitTypes, InitStages, InitFiles, NextTypes, NextStages, NextFiles, PTL DEF InventorySpec

\* Whatever crashed, was resumed or was edited between sessions, what a session
\* reuses was saved for its own cluster by sessions that came to their end, if
\* kubectl kept its context in all of them (valid_resume_provenance).
THEOREM ReuseIsOwn == InventorySpec => []ReusedSnapshotsAreOwn
  <1>1. FileInv => ReusedSnapshotsAreOwn
    BY DEF FileInv, FilesInv, Kept, ReusedSnapshotsAreOwn
  <1> QED
    BY <1>1, FileInvariance, PTL

-----------------------------------------------------------------------------
(* What a report of a fresh session promises *)

\* Something a report shows to be missing, or a call that failed and will be.
Lost ==
    \/ served.state # "AVAILABLE"
    \/ \E r \in Deep \cap served.names : coverage[r] = "UNAVAILABLE"
    \/ \E r \in Targets : entries[r] = "UNAVAILABLE"
    \/ \E t \in Threads : call[t].phase = "failed"

OutOfBudget == budget.reason \in {"requests", "duration"}

\* A budget that stopped the session lost something; a resource that is served
\* is listed, or is known not to be; an inventory that a fresh session calls
\* available has everything.
LossInv ==
    /\ OutOfBudget => Lost
    /\ \A r \in served.names \cap Deep : coverage[r] \in States
    /\ \A r \in Deep : coverage[r] = "N/A" => served.state = "AVAILABLE"
    /\ stage = "report" /\ ~ resume /\ inventory = "AVAILABLE" =>
          /\ Skipped = {}
          /\ \A r \in served.names \cap Deep : coverage[r] # "UNAVAILABLE"
          /\ \A r \in Targets : entries[r] = "AVAILABLE"

ReportInv == stage # "off" => LossInv

LEMMA InitReport == InventoryInit => ReportInv
  BY DEF InventoryInit, ReportInv

\* A new session has lost nothing yet.
LEMMA FreshIsWhole == Fresh => ~ OutOfBudget'
  <1>1. ASSUME Fresh PROVE budget' = FreshBudget
    BY <1>1 DEF Fresh
  <1>2. FreshBudget.reason \notin {"requests", "duration"}
    BY DEF FreshBudget
  <1> QED
    BY <1>1, <1>2 DEF OutOfBudget

\* A step that leaves the results alone and loses no failed call.
LEMMA LossKept ==
    ASSUME ReportInv, stage # "off", stage' # "off", UNCHANGED <<resume, served, coverage, entries>>,
           OutOfBudget' => OutOfBudget \/ Lost',
           \A t \in Threads : call[t].phase = "failed" => call'[t].phase = "failed",
           stage' = "report" => UNCHANGED <<stage, inventory>>
    PROVE  ReportInv'
  <1>1. Targets' = Targets /\ Skipped' = Skipped
    BY DEF Targets, Skipped
  <1>2. LossInv
    BY DEF ReportInv
  <1>3. Lost => Lost'
    BY <1>1 DEF Lost
  <1> QED
    BY <1>1, <1>2, <1>3 DEF ReportInv, LossInv

LEMMA NextReport ==
    ASSUME InventoryTypes, StageInv, ReportInv, [InventoryNext]_inventoryVars
    PROVE  ReportInv'
  <1>0. /\ Main \in Threads /\ Workers \subseteq Threads /\ Main \notin Workers
        /\ Threads = {Main} \cup Workers /\ call \in [Threads -> CallType]
        /\ coverage \in [Deep -> States \cup {"N/A", "PARTIAL"}] /\ entries \in [Others -> States]
    BY InventoryAssumption DEF Threads, InventoryTypes
  <1>1. ASSUME NEW t \in Threads, Calls(t) PROVE ReportInv'
    <2>1. UNCHANGED <<stage, resume, served, coverage, entries, inventory>>
      BY <1>1, CallStep DEF control, results, disk
    <2>2. \A u \in Threads \ {t} : call'[u] = call[u]
      BY <1>1, CallStep
    <2>3. call[t].phase # "failed"
      BY <1>1 DEF Calls, Admit, Ask, Respond
    <2>4. OutOfBudget' => OutOfBudget \/ Lost'
      <3>1. CASE Admit(t)
        <4>1. CASE Granted(t)
          <5>1. budget' = Reserve(budget)
            BY <4>1 DEF Granted, Admit
          <5>2. budget'.reason = budget.reason
            BY <5>1, BudgetUpdates
          <5> QED
            BY <5>2 DEF OutOfBudget
        <4>2. CASE ~ Granted(t)
          <5>1. call' = [call EXCEPT ![t] = [call[t] EXCEPT !.phase = "failed"]]
            BY <3>1, <4>2 DEF Granted, Admit, Returned
          <5>2. [call[t] EXCEPT !.phase = "failed"].phase = "failed"
            BY <1>0 DEF CallType
          <5>3. call'[t].phase = "failed"
            BY <1>0, <5>1, <5>2
          <5> QED
            BY <5>3 DEF Lost
        <4> QED
          BY <4>1, <4>2
      <3>2. CASE Ask(t)
        BY <3>2 DEF Ask, OutOfBudget
      <3>3. CASE Respond(t)
        <4>1. PICK size \in {0, 1} : budget' = Counted(size)
          BY <3>3 DEF Respond
        <4>2. budget'.reason \in {budget.reason, "bytes"}
          BY <4>1, BudgetUpdates
        <4> QED
          BY <4>2 DEF OutOfBudget
      <3> QED
        BY <1>1, <3>1, <3>2, <3>3 DEF Calls
    <2>5. \A u \in Threads : call[u].phase = "failed" => call'[u].phase = "failed"
      BY <2>2, <2>3
    <2>6. CASE stage # "off"
      BY <2>1, <2>4, <2>5, <2>6, LossKept
    <2> QED
      BY <2>1, <2>6 DEF ReportInv
  <1>2. CASE StartSession
    <2>1. Fresh /\ stage' = "discovery"
      BY <1>2 DEF StartSession
    <2>2. served'.names = {} /\ \A r \in Deep : coverage'[r] # "N/A"
      BY <2>1 DEF Fresh
    <2> QED
      BY <2>1, <2>2, FreshIsWhole DEF ReportInv, LossInv
  <1>3. CASE Discover
    <2>1. /\ stage = "discovery" /\ stage' \in {"discovery", "deep"}
          /\ call[Main].phase \in {"listed", "failed"}
          /\ UNCHANGED <<resume, budget, coverage, entries>>
      BY <1>3 DEF Discover
    <2>2. /\ \A r \in Deep : coverage[r] = "none"
          /\ \A r \in Others : entries[r] = "none"
          /\ \A w \in Workers : call[w].phase = "free"
      BY <2>1 DEF StageInv, Idle
    <2>3. OutOfBudget => Lost
      BY <2>1 DEF ReportInv, LossInv
    <2>4. OutOfBudget' => Lost'
      <3>1. CASE call[Main].phase = "failed"
        <4>1. served'.state = "UNAVAILABLE"
          BY <1>3, <3>1 DEF Discover, InventoryTypes
        <4> QED
          BY <4>1 DEF Lost
      <3>2. CASE call[Main].phase = "listed"
        <4>1. served'.state = served.state
          BY <1>3, <3>2 DEF Discover, Served
        <4>2. \A t \in Threads : call[t].phase # "failed"
          BY <1>0, <2>2, <3>2
        <4>3. Lost => served.state # "AVAILABLE"
          BY <2>2, <4>2 DEF Lost, Targets
        <4> QED
          BY <2>1, <2>3, <4>1, <4>3 DEF Lost, OutOfBudget
      <3> QED
        BY <2>1, <3>1, <3>2
    <2>5. \A r \in Deep : coverage'[r] \in States
      BY <2>1, <2>2 DEF States
    <2>6. \A r \in Deep : coverage'[r] # "N/A"
      BY <2>1, <2>2
    <2> QED
      BY <2>1, <2>4, <2>5, <2>6 DEF ReportInv, LossInv
  <1>4. ASSUME NEW r \in Deep, NEW how \in States, stage = "deep", stage' = "deep",
               coverage[r] = "none", coverage' = [coverage EXCEPT ![r] = how],
               UNCHANGED <<resume, budget, served, entries>>,
               \A t \in Threads : call[t].phase = "failed" => how = "UNAVAILABLE" /\ r \in served.names
        PROVE  ReportInv'
    <2>1. /\ coverage'[r] = how /\ Targets' = Targets
          /\ \A o \in Deep \ {r} : coverage'[o] = coverage[o]
      BY <1>0, <1>4 DEF Targets
    <2>2. LossInv
      BY <1>4 DEF ReportInv
    <2>3. Lost => Lost'
      BY <1>4, <2>1 DEF Lost
    <2>4. \A o \in served.names \cap Deep : coverage'[o] \in States
      BY <1>4, <2>1, <2>2 DEF LossInv
    <2>5. \A o \in Deep : coverage'[o] = "N/A" => served.state = "AVAILABLE"
      BY <1>4, <2>1, <2>2 DEF LossInv, States
    <2> QED
      BY <1>4, <2>2, <2>3, <2>4, <2>5 DEF ReportInv, LossInv, OutOfBudget
  <1>5. CASE NextDeep
    <2>1. /\ stage = "deep" /\ stage' = "deep" /\ call[Main].phase = "free"
          /\ UNCHANGED <<resume, budget, served, entries>>
      BY <1>5 DEF NextDeep, control
    <2>2. PICK r \in Todo : ReuseSnapshot(r) \/ NotServed(r) \/ ListDeep(r)
      BY <1>5 DEF NextDeep
    <2>3. r \in Deep /\ coverage[r] = "none"
      BY <2>2 DEF Todo
    <2>4. \A t \in Threads : call[t].phase # "failed"
      BY <1>0, <2>1 DEF StageInv, Idle
    <2>5. CASE ReuseSnapshot(r)
      <3>1. coverage' = [coverage EXCEPT ![r] = "AVAILABLE"] /\ "AVAILABLE" \in States
        BY <2>5 DEF ReuseSnapshot, States
      <3> QED
        BY <1>4, <2>1, <2>3, <2>4, <3>1
    <2>6. CASE NotServed(r)
      <3>1. /\ r \notin served.names /\ UNCHANGED call
            /\ \A o \in Deep \ {r} : coverage'[o] = coverage[o]
            /\ coverage'[r] = "N/A" => served.state = "AVAILABLE"
        BY <1>0, <2>3, <2>6 DEF NotServed
      <3>2. \A o \in served.names \cap Deep : coverage'[o] = coverage[o]
        BY <3>1
      <3>3. LossInv /\ Targets' = Targets
        BY <2>1 DEF ReportInv, Targets
      <3>4. Lost => Lost'
        BY <2>1, <3>1, <3>2, <3>3 DEF Lost
      <3>5. \A o \in Deep : coverage'[o] = "N/A" => served.state = "AVAILABLE"
        BY <3>1, <3>3 DEF LossInv
      <3> QED
        BY <2>1, <3>2, <3>3, <3>4, <3>5 DEF ReportInv, LossInv, OutOfBudget
    <2>7. CASE ListDeep(r)
      <3>1. coverage' = coverage
        BY <2>7 DEF ListDeep
      <3> QED
        BY <2>1, <2>4, <3>1, LossKept DEF OutOfBudget
    <2> QED
      BY <2>2, <2>5, <2>6, <2>7
  <1>6. CASE SaveDeep
    <2> DEFINE r == call[Main].target
    <2>1. /\ stage = "deep" /\ stage' = "deep" /\ call[Main].phase \in {"listed", "failed"}
          /\ UNCHANGED <<resume, budget, served, entries>>
      BY <1>6 DEF SaveDeep, control
    <2>2. r \in Deep /\ r \in served.names /\ coverage[r] = "none"
          /\ \A w \in Workers : call[w].phase = "free"
      BY <1>0, <2>1 DEF StageInv, Idle
    <2>3. PICK how \in {"AVAILABLE", "UNAVAILABLE"} :
             /\ coverage' = [coverage EXCEPT ![r] = how]
             /\ call[Main].phase = "failed" => how = "UNAVAILABLE"
      BY <1>6 DEF SaveDeep
    <2>4. \A t \in Threads : call[t].phase = "failed" => how = "UNAVAILABLE" /\ r \in served.names
      BY <1>0, <2>2, <2>3
    <2>5. how \in States
      BY <2>3 DEF States
    <2> QED
      BY <1>4, <2>1, <2>2, <2>3, <2>4, <2>5
  <1>7. CASE BeginUniversal
    <2>1. /\ stage = "deep" /\ UNCHANGED <<resume, budget, call, results, inventory>>
          /\ stage' \in {"report", "universal"} /\ (stage' = "report" => resume)
      BY <1>7 DEF BeginUniversal, KeptInventory, disk
    <2>2. Targets' = Targets /\ LossInv /\ UNCHANGED <<served, coverage, entries>>
      BY <2>1 DEF Targets, ReportInv, results
    <2>3. Lost => Lost'
      BY <2>1, <2>2 DEF Lost
    <2> QED
      BY <2>1, <2>2, <2>3 DEF ReportInv, LossInv, OutOfBudget
  <1>8. ASSUME NEW w \in Workers, Take(w) PROVE ReportInv'
    <2>1. /\ stage = "universal" /\ UNCHANGED <<stage, resume, budget, served, coverage, entries>>
          /\ call[w].phase = "free"
          /\ \A t \in Threads \ {w} : call'[t] = call[t]
      BY <1>0, <1>8 DEF Take, control, results
    <2> QED
      BY <2>1, LossKept DEF OutOfBudget
  <1>9. ASSUME NEW w \in Workers, CollectOne(w) PROVE ReportInv'
    <2> DEFINE r == call[w].target
    <2>1. /\ stage = "universal" /\ UNCHANGED <<stage, resume, budget, served, coverage>>
          /\ call[w].phase \in {"listed", "failed"}
      BY <1>9 DEF CollectOne, control
    <2>2. r \in Targets /\ r \in Others /\ entries[r] = "none"
      BY <2>1 DEF StageInv, Idle, Targets
    <2>3. /\ Targets' = Targets /\ LossInv
          /\ \A t \in Threads \ {w} : call'[t] = call[t]
          /\ \A o \in Others \ {r} : entries'[o] = entries[o]
          /\ call[w].phase = "failed" => entries'[r] = "UNAVAILABLE"
      BY <1>0, <1>9, <2>1, <2>2 DEF CollectOne, Targets, ReportInv
    <2>4. Lost => Lost'
      <3>1. ASSUME NEW o \in Targets, entries[o] = "UNAVAILABLE" PROVE Lost'
        BY <2>2, <2>3, <3>1 DEF Lost, Targets
      <3>2. ASSUME NEW t \in Threads, call[t].phase = "failed" PROVE Lost'
        BY <2>2, <2>3, <3>2 DEF Lost
      <3> QED
        BY <2>1, <3>1, <3>2 DEF Lost
    <2> QED
      BY <2>1, <2>3, <2>4 DEF ReportInv, LossInv, OutOfBudget
  <1>10. CASE SaveInventory
    <2>1. /\ stage = "universal" /\ UNCHANGED <<resume, budget, call, results>>
          /\ \A r \in Targets : entries[r] # "none"
      BY <1>10 DEF SaveInventory
    <2>2. /\ Targets' = Targets /\ Skipped' = Skipped /\ LossInv
          /\ UNCHANGED <<served, coverage, entries>>
      BY <2>1 DEF Targets, Skipped, ReportInv, results
    <2>3. Lost => Lost'
      BY <2>1, <2>2 DEF Lost
    <2>4. inventory' = "AVAILABLE" =>
             /\ Skipped = {}
             /\ \A r \in served.names \cap Deep : coverage[r] # "UNAVAILABLE"
             /\ \A r \in Targets : entries[r] # "UNAVAILABLE"
      BY <1>10 DEF SaveInventory, InventoryState
    <2>5. \A r \in Targets : entries[r] \in States \ {"none"}
      BY <1>0, <2>1 DEF Targets
    <2> QED
      BY <2>1, <2>2, <2>3, <2>4, <2>5 DEF ReportInv, LossInv, OutOfBudget, States
  <1>11. CASE WriteProvenance \/ Crash \/ \E r \in Deep : Edit(r)
    <2>1. stage' = "off"
      BY <1>11 DEF WriteProvenance, Crash, Edit, control
    <2> QED
      BY <2>1 DEF ReportInv
  <1>12. CASE Tick \/ SwitchContext \/ UNCHANGED inventoryVars
    <2>1. UNCHANGED <<stage, resume, budget, call, served, coverage, entries, inventory>>
      BY <1>12 DEF Tick, SwitchContext, inventoryVars, control, results, disk
    <2>2. CASE stage # "off"
      BY <2>1, <2>2, LossKept DEF OutOfBudget
    <2> QED
      BY <2>1, <2>2 DEF ReportInv
  <1> QED
    BY <1>1, <1>2, <1>3, <1>5, <1>6, <1>7, <1>8, <1>9, <1>10, <1>11, <1>12 DEF InventoryNext, Calls

LEMMA ReportInvariance == InventorySpec => [](InventoryTypes /\ StageInv /\ FileInv /\ ReportInv)
  BY InitTypes, InitStages, InitFiles, InitReport,
     NextTypes, NextStages, NextFiles, NextReport, PTL DEF InventorySpec

\* A fresh session has what it calls available, knows that what it calls N/A is
\* not served, and, where both scopes of the discovery answered, calls its inventory
\* available only if it was refused no request and lost and left out no list
\* (collect_live, collect_universal_inventory).
THEOREM FreshReportsHold == InventorySpec => []FreshReportsAreReal
  <1>1. InventoryTypes /\ StageInv /\ FileInv /\ ReportInv => FreshReportsAreReal
    <2> SUFFICES ASSUME InventoryTypes, StageInv, FileInv, ReportInv, stage = "report", ~ resume, steady
                 PROVE  FreshReportsAreReal
      BY DEF FreshReportsAreReal
    <2>1. \A r \in Deep : coverage[r] = "AVAILABLE" => file[r] = ListOf(cluster)
      BY DEF FileInv, FilesInv
    <2>2. ASSUME inventory = "AVAILABLE", served.state = "AVAILABLE"
          PROVE  /\ budget.reason = "" \/ budget.reason = "bytes"
                 /\ \A r \in served.names \cap Deep : file[r] = ListOf(cluster)
                 /\ \A r \in served.names \cap Others : entries[r] = "AVAILABLE"
      <3>1. /\ Skipped = {} /\ (OutOfBudget => Lost)
            /\ \A r \in served.names \cap Deep :
                  coverage[r] \in States /\ coverage[r] # "UNAVAILABLE"
            /\ \A r \in Targets : entries[r] = "AVAILABLE"
        BY <2>2 DEF ReportInv, LossInv
      <3>2. \A r \in served.names \cap Deep : coverage[r] = "AVAILABLE"
        BY <3>1 DEF StageInv, States
      <3>3. \A t \in Threads : call[t].phase # "failed"
        BY DEF StageInv, Idle
      <3>4. ~ Lost
        BY <2>2, <3>1, <3>2, <3>3 DEF Lost
      <3>5. budget.reason \in Reasons
        BY DEF InventoryTypes, BudgetType
      <3>6. \A r \in served.names \cap Others : r \in Targets
        BY <3>1 DEF Skipped, Targets
      <3> QED
        BY <2>1, <3>1, <3>2, <3>4, <3>5, <3>6 DEF OutOfBudget, Reasons
    <2>3. \A r \in Deep :
             coverage[r] = "N/A" => served.state = "AVAILABLE" /\ r \notin served.names
      BY DEF ReportInv, LossInv, States
    <2> QED
      BY <2>1, <2>2, <2>3 DEF FreshReportsAreReal
  <1> QED
    BY <1>1, ReportInvariance, PTL
=============================================================================
